---- MODULE Spec2Model ----
(***************************************************************************)
(* A model of the request-handling and retrieval core of TikitAI:          *)
(*   - the RAG pipeline of services/rag_service.py (retrieve, generate,    *)
(*     ask_question) and its caller routers/chat_router.py,                *)
(*   - the refresh-token lifecycle of auth.py and routers/auth_router.py,  *)
(*   - the data-source synchronisation of routers/data_router.py,          *)
(*     services/clickup_service.py and services/vector_service.py.         *)
(* Python semantics are kept where they decide the behaviour: a call that  *)
(* passes an argument the callee does not declare raises TypeError, a call *)
(* of a method the class does not define raises AttributeError, and an      *)
(* exception is handled by the nearest enclosing except clause.            *)
(***************************************************************************)
EXTENDS Integers, Sequences, FiniteSets, TLC

VARIABLES
    \* ---- RAG pipeline (one request at a time through the graph) ----
    pc,          \* position of the request in the pipeline
    req,         \* the inputs of the request being served
    st,          \* the State dict of the RAG graph
    out,         \* what ask_question returned: answer, metrics, raised
    http,        \* the last response of POST /chat
    \* ---- vector store, data sources, files ----
    store,       \* the FAISS docstore: a sequence of chunks
    datasource,  \* the DataSource table: the rows by id
    files,       \* the files under data/: path -> what a loader finds there
    last,        \* the last data-source request: operation, row id, status
    \* ---- refresh tokens ----
    tokens,      \* the RefreshToken table: a set of rows
    serial,      \* the last RefreshToken.id given out (autoincrement)
    now,         \* datetime.utcnow(), in clock ticks
    issued,      \* per user: the tokens given by the latest consecutive logins
    auth,        \* the last response of an /auth endpoint
    \* ---- widget sessions ----
    bot,          \* the Bot table: per bot id, whether the row exists and is active
    widget_token, \* the WidgetToken of each bot: none, active or revoked
    chat_session, \* the ChatSession table: the rows by id
    widget,       \* the last response of a /widget endpoint
    \* ---- requests served concurrently (the thread pool of the server) ----
    proc,         \* per worker thread: the request it serves and its locals
    \* ---- conversations ----
    conversation  \* the Conversation table: the rows by id

ragVars  == <<pc, req, st, out, http>>
syncVars == <<store, datasource, files, last>>
authVars == <<tokens, serial, now, issued, auth>>
widgetVars == <<bot, widget_token, chat_session, widget>>
procVars == <<proc>>
chatVars == <<conversation>>
extVars  == <<widgetVars, procVars, chatVars>>
vars     == <<pc, req, st, out, http, store, datasource, files, last,
              tokens, serial, now, issued, auth,
              bot, widget_token, chat_session, widget, proc, conversation>>

None == "None"

(***************************************************************************)
(* Strings are sequences of one-character strings, so that lower(),       *)
(* strip(), split() and the substring test `a in b` are computed.          *)
(***************************************************************************)

\* the string literals of the source and of the requests
Str ==
    [ hello |-> <<"h", "e", "l", "l", "o">>,
      hi |-> <<"h", "i">>,
      hey |-> <<"h", "e", "y">>,
      zone |-> <<"h", "o", "w", " ", "c", "a", "n", " ", "i", " ", "c", "h", "a", "n", "g", "e", " ", "t", "h", "e", " ", "s", "u", "p", "e", "r", "v", "i", "s", "o", "r", " ", "o", "f", " ", "a", " ", "z", "o", "n", "e", "?">>,
      report |-> <<"w", "h", "e", "r", "e", " ", "c", "a", "n", " ", "i", " ", "f", "i", "n", "d", " ", "t", "h", "e", " ", "o", "b", "j", "e", "c", "t", "i", "v", "e", " ", "s", "t", "a", "t", "i", "s", "t", "i", "c", "s", " ", "r", "e", "p", "o", "r", "t", "?">>,
      good_morning |-> <<"g", "o", "o", "d", " ", "m", "o", "r", "n", "i", "n", "g">>,
      good_afternoon |-> <<"g", "o", "o", "d", " ", "a", "f", "t", "e", "r", "n", "o", "o", "n">>,
      good_evening |-> <<"g", "o", "o", "d", " ", "e", "v", "e", "n", "i", "n", "g">>,
      whats_up |-> <<"w", "h", "a", "t", "'", "s", " ", "u", "p">>,
      how_are_you |-> <<"h", "o", "w", " ", "a", "r", "e", " ", "y", "o", "u">>,
      who_are_you |-> <<"w", "h", "o", " ", "a", "r", "e", " ", "y", "o", "u">>,
      what_can_you_do |-> <<"w", "h", "a", "t", " ", "c", "a", "n", " ", "y", "o", "u", " ", "d", "o">>,
      help |-> <<"h", "e", "l", "p">>,
      test |-> <<"t", "e", "s", "t">>,
      sup |-> <<"s", "u", "p">>,
      this |-> <<"t", "h", "i", "s">>,
      fix |-> <<"f", "i", "x">> ]

\* str.lower() on the letters the inputs use in upper case
LowerChar(c) ==
    CASE c = "H" -> "h" [] c = "S" -> "s" [] c = "G" -> "g" [] c = "W" -> "w"
      [] c = "T" -> "t" [] c = "F" -> "f" [] OTHER -> c

UpperChar(c) ==
    CASE c = "h" -> "H" [] c = "s" -> "S" [] c = "g" -> "G" [] c = "w" -> "W"
      [] c = "t" -> "T" [] c = "f" -> "F" [] OTHER -> c

str_lower(s) == [i \in 1..Len(s) |-> LowerChar(s[i])]

RECURSIVE lstrip(_)
lstrip(s) == IF s # <<>> /\ Head(s) = " " THEN lstrip(Tail(s)) ELSE s

RECURSIVE rstrip(_)
rstrip(s) ==
    IF s # <<>> /\ s[Len(s)] = " " THEN rstrip(SubSeq(s, 1, Len(s) - 1)) ELSE s

str_strip(s) == rstrip(lstrip(s))

\* str.split(): the maximal runs of non-blank characters
RECURSIVE split_from(_, _, _)
split_from(s, cur, acc) ==
    IF s = <<>> THEN (IF cur = <<>> THEN acc ELSE Append(acc, cur))
    ELSE IF Head(s) = " "
         THEN split_from(Tail(s), <<>>, IF cur = <<>> THEN acc ELSE Append(acc, cur))
         ELSE split_from(Tail(s), Append(cur, Head(s)), acc)

str_split(s) == split_from(s, <<>>, <<>>)

\* the Python test `sub in s` on strings
str_contains(sub, s) ==
    \E i \in 1..(Len(s) - Len(sub) + 1) : SubSeq(s, i, i + Len(sub) - 1) = sub

RECURSIVE join(_)
join(words) ==
    IF words = <<>> THEN <<>>
    ELSE IF Len(words) = 1 THEN words[1]
    ELSE words[1] \o <<" ">> \o join(Tail(words))

(***************************************************************************)
(* RAGService._retrieve: the canned answers and the greeting list.         *)
(***************************************************************************)
StaticKeys ==
    { Str.hello, Str.hi, Str.hey, Str.zone, Str.report, Str.good_morning, Str.good_afternoon,
      Str.good_evening, Str.whats_up, Str.how_are_you, Str.who_are_you,
      Str.what_can_you_do, Str.help, Str.test }

\* the dict static_responses (the emoji of the source texts are left out)
static_responses ==
    [ k \in StaticKeys |->
        CASE k = Str.hello -> "Hey there!"
          [] k = Str.hi -> "Hey!, I'm Aidly, your friendly support specialist at DATAFIRST! How can I assist you today?"
          [] k = Str.hey -> "Hey!, I'm Aidly, your friendly support specialist at DATAFIRST! How can I assist you today?"
          [] k = Str.zone -> "To change the supervisor of a zone, you can navigate to the zone settings"
          [] k = Str.report -> "You can find the Objective Statistics Report in the statistics section"
          [] k = Str.good_morning -> "Good morning! Hope you're having a great day!"
          [] k = Str.good_afternoon -> "Good afternoon! What's up?"
          [] k = Str.good_evening -> "Good evening!"
          [] k = Str.whats_up -> "Hey! Just here to help you out. What do you need?"
          [] k = Str.how_are_you -> "I'm doing great, thanks for asking! How can I help you today?"
          [] k = Str.who_are_you -> "I'm Aidly, your friendly support specialist at DATAFIRST!"
          [] k = Str.what_can_you_do -> "I can help you find information from your documents"
          [] k = Str.help -> "Sure thing! I'm here to help you find information."
          [] OTHER -> "Test successful! I'm working perfectly. What would you like to know?" ]

greetings ==
    { Str.hey, Str.hi, Str.hello, Str.good_morning, Str.good_afternoon, Str.good_evening,
      Str.whats_up, Str.how_are_you, Str.sup }

DefaultGreeting == "Hey! What can I help you with today?"
FallbackAnswer == "I'm having trouble processing your question right now. Please try again."
NoQuestionAnswer == "I didn't receive a question. Could you please ask something?"
NoAnswer == "I wasn't able to generate an answer."

\* the number of tokens up to which a greeting is short-circuited
GreetingMaxTokens == 3

\* the relevance threshold 0.6 and the scores, in hundredths
ScoreThreshold == 60

\* settings.similarity_search_k
similarity_search_k == 3

(***************************************************************************)
(* The vector store.  A chunk is the Document that                         *)
(* process_documents_for_embedding builds, Document(page_content=chunk):   *)
(* its metadata is empty, so the payload fields workspace_id and source    *)
(* are None.  origin, origin_ws and part say which DataSource text the     *)
(* chunk holds; they are the chunk's text, not payload the code can read.  *)
(***************************************************************************)
Workspaces == {"w1", "w2"}

Chunk(ref, ws, i) ==
    [origin |-> ref, origin_ws |-> ws, part |-> i, workspace_id |-> None, source |-> None]

\* dict.get(key, default) on a payload field
meta_get(v, default) == IF v = None THEN default ELSE v

Scores == {59, 60, 61}

\* sequences without repetition of n indices of the store
RECURSIVE Picks(_, _)
Picks(idx, n) ==
    IF n = 0 THEN {<<>>}
    ELSE UNION { { <<i>> \o p : p \in Picks(idx \ {i}, n - 1) } : i \in idx }

Min(a, b) == IF a < b THEN a ELSE b

\* what FAISS.similarity_search_with_score(query, k) can give: the k nearest
\* chunks of the whole index, each with a score (no payload filter exists)
FaissSearch(s, k) ==
    LET n == Min(k, Len(s))
    IN  { [i \in 1..n |-> [doc |-> s[p[i]], score |-> sc[i]]] :
            p \in Picks(1..Len(s), n), sc \in [1..n -> Scores] }

Raised == [raised |-> TRUE, hits |-> <<>>]
Returned(h) == [raised |-> FALSE, hits |-> h]

\* One unfiltered search whatever keyword arguments are passed.
search_ignoring_filter(s, k, kwargs) ==
    { Returned(h) : h \in FaissSearch(s, k) } \cup { Returned(<<>>) }

\* VectorStoreService.similarity_search_with_score(self, query, k=None): the
\* outcomes of a call that passes the keyword arguments kwargs.  A keyword the
\* signature does not declare raises TypeError before the body runs; inside
\* the body an exception of the index is swallowed and [] is returned.
similarity_search_with_score(s, k, kwargs) ==
    IF ~(kwargs \subseteq {"k"})
    THEN { Raised }
    ELSE { Returned(h) : h \in FaissSearch(s, k) } \cup { Returned(<<>>) }

(***************************************************************************)
(* RAGService._retrieve and RAGService._generate                           *)
(***************************************************************************)
StaticDoc(text) ==
    [page_content |-> text, source |-> "static_response", workspace_id |-> None,
     chunk |-> Chunk("static", None, 0)]

StoreDoc(c) ==
    [page_content |-> "chunk", source |-> c.source, workspace_id |-> c.workspace_id,
     chunk |-> c]

StaticInfo(id, text) ==
    [doc_id |-> id, doc |-> text, score |-> 100, source |-> "static_response",
     workspace_id |-> "demo", chunk |-> Chunk("static", None, 0)]

DocInfo(h) ==
    [doc_id |-> "unknown", doc |-> "chunk", score |-> h.score,
     source |-> meta_get(h.doc.source, "unknown"),
     workspace_id |-> meta_get(h.doc.workspace_id, "unknown"), chunk |-> h.doc]

\* translate_text(text, source, "en"): the text in English
translate_text(q) == <<"#en">> \o q

NoTranslation == [set |-> FALSE, text |-> <<>>]
Searched(q) == [set |-> TRUE, text |-> q]

\* lines 180-181: the exact match on the normalized question
IsStaticKey(question) == question \in StaticKeys

\* The greeting test without the limit on the number of tokens.
IsGreetingOfAnyLength(question) ==
    \E g \in greetings : str_contains(g, question)

\* line 207: a greeting occurs in the normalized question, of at most 3 tokens
IsSimpleGreeting(question) ==
    /\ \E g \in greetings : str_contains(g, question)
    /\ Len(str_split(question)) <= GreetingMaxTokens

\* lines 229-244: the question the search runs on
search_question(state, r) ==
    IF state.source_language # "en" /\ state.source_language # "english"
    THEN IF r.translate_fails THEN state.question ELSE translate_text(state.question)
    ELSE state.question

\* A threshold test that lets the boundary score through.
passes_threshold_inclusive(score) == score >= ScoreThreshold

\* line 269: score > 0.6
passes_threshold(score) == score > ScoreThreshold

\* lines 262-297: the context and the telemetry built from the hits
context_docs(hits) ==
    LET keep == { i \in 1..Len(hits) : passes_threshold(hits[i].score) }
        F[i \in 0..Len(hits)] ==
            IF i = 0 THEN <<>>
            ELSE IF i \in keep THEN Append(F[i - 1], StoreDoc(hits[i].doc)) ELSE F[i - 1]
    IN  F[Len(hits)]

docs_info(hits) == [i \in 1..Len(hits) |-> DocInfo(hits[i])]

\* the metadata filter of lines 247-249
metadata_filter(state) ==
    IF state.workspace_id # None THEN state.workspace_id ELSE None

\* _retrieve(state), given the outcome of the vector-service call
retrieve(state, r, outcome) ==
    LET question == str_strip(str_lower(state.question)) IN
    IF IsStaticKey(question)
    THEN [state EXCEPT !.context = <<StaticDoc(static_responses[question])>>,
                       !.retrieved_docs_info =
                            <<StaticInfo("static", static_responses[question])>>]
    ELSE IF IsSimpleGreeting(question)
    THEN [state EXCEPT !.context = <<StaticDoc(DefaultGreeting)>>,
                       !.retrieved_docs_info =
                            <<StaticInfo("static_greeting", DefaultGreeting)>>]
    ELSE IF outcome.raised
    THEN [state EXCEPT !.context = <<>>, !.retrieved_docs_info = <<>>,
                       !.translated_question = Searched(state.question),
                       !.search_called = TRUE,
                       !.search_filter = metadata_filter(state)]
    ELSE [state EXCEPT !.context = context_docs(outcome.hits),
                       !.retrieved_docs_info = docs_info(outcome.hits),
                       !.translated_question = Searched(search_question(state, r)),
                       !.search_called = TRUE,
                       !.search_filter = metadata_filter(state),
                       !.hits = outcome.hits]

IsStaticContext(context) ==
    Len(context) = 1 /\ context[1].source = "static_response"

LlmAnswer == "<response.content>"

\* The except clause returning the text of the exception.
generate_error_text(state, r) ==
    IF IsStaticContext(state.context)
    THEN [state EXCEPT !.answer = state.context[1].page_content]
    ELSE IF r.llm_fails
    THEN [state EXCEPT !.answer = "str(e)", !.llm_called = TRUE,
                       !.llm_context = state.context]
    ELSE [state EXCEPT !.answer = LlmAnswer, !.llm_called = TRUE,
                       !.llm_context = state.context]

\* _generate(state): lines 313-357
generate(state, r) ==
    IF IsStaticContext(state.context)
    THEN [state EXCEPT !.answer = state.context[1].page_content]
    ELSE IF r.llm_fails
    THEN [state EXCEPT !.answer = FallbackAnswer, !.llm_called = TRUE,
                       !.llm_context = state.context]
    ELSE [state EXCEPT !.answer = LlmAnswer, !.llm_called = TRUE,
                       !.llm_context = state.context]

(***************************************************************************)
(* Refresh tokens: auth.py and routers/auth_router.py.  The secret token a *)
(* client holds is named by the id of the row that stores its SHA-256      *)
(* hash; 0 names a missing cookie.  The clock counts ticks; a request      *)
(* reads one instant, and the next request reads a later one.              *)
(***************************************************************************)
Users == {"u1", "u2"}

\* the number of refresh tokens given out in one behaviour
MaxIssued == 4

\* the last day the clock reaches
MaxDays == 31

REFRESH_TOKEN_EXPIRE_DAYS == 30
InactiveRetentionDays == 7

TicksPerDay == MaxIssued + 1
days(d) == d * TicksPerDay
PassDays == {7, 30}

\* a response: the endpoint, the user a token pair was made for, the refresh
\* token presented to /refresh, the status, the refresh token created
NoAuth == [op |-> None, user |-> None, presented |-> 0, status |-> 0, created |-> 0]

Response(op, user, presented, status, created) ==
    [op |-> op, user |-> user, presented |-> presented, status |-> status,
     created |-> created]

AuthIdle ==
    /\ tokens = {} /\ serial = 0 /\ now = 0
    /\ issued = [u \in Users |-> <<>>] /\ auth = NoAuth

RefreshToken(id, user_id, t) ==
    [id |-> id, user_id |-> user_id, created_at |-> t,
     expires_at |-> t + days(REFRESH_TOKEN_EXPIRE_DAYS), is_active |-> TRUE]

\* cleanup_expired_tokens(user_id, session): the rows left
cleanup_expired_tokens(user_id, table, t) ==
    { r \in table :
        ~(/\ r.user_id = user_id
          /\ \/ r.expires_at < t
             \/ (~r.is_active /\ r.created_at < t)) }

\* .order_by(RefreshToken.created_at.desc())
order_by_created_at_desc(rows) ==
    CHOOSE s \in [1..Cardinality(rows) -> rows] :
        /\ \A i, j \in 1..Cardinality(rows) : i # j => s[i] # s[j]
        /\ \A i, j \in 1..Cardinality(rows) : i < j => s[i].created_at >= s[j].created_at

\* A rotation: every token that was active is deactivated.
every_active_token(active_tokens) == active_tokens

\* Deactivation that spares the two most recent active tokens.
all_but_two_most_recent(active_tokens) ==
    IF Len(active_tokens) >= 2 THEN Tail(Tail(active_tokens)) ELSE <<>>

\* lines 109-113: with 2 or more active tokens, all but the most recent
tokens_to_deactivate(active_tokens) ==
    IF Len(active_tokens) >= 2 THEN Tail(active_tokens) ELSE <<>>

\* lines 103-108: the active tokens of the user, the most recent first
select_active_tokens(user_id, table) ==
    order_by_created_at_desc({ r \in table : r.user_id = user_id /\ r.is_active })

\* lines 110-123: the rows read are deactivated but the most recent, the new
\* row is added, and the session commits
store_refresh_token(user_id, table, active_tokens, t, id) ==
    LET old == tokens_to_deactivate(active_tokens)
        off == { old[i].id : i \in 1..Len(old) }
    IN  { IF r.id \in off THEN [r EXCEPT !.is_active = FALSE] ELSE r : r \in table }
          \cup { RefreshToken(id, user_id, t) }

\* create_refresh_token(user_id, session): the table after the commit
create_refresh_token(user_id, table, t, id) ==
    LET cleaned == cleanup_expired_tokens(user_id, table, t)
    IN  store_refresh_token(user_id, cleaned, select_active_tokens(user_id, cleaned), t, id)

\* A verification that accepts a deactivated token.
verify_ignoring_is_active(token, table, t) ==
    IF \E r \in table : r.id = token /\ r.expires_at > t
    THEN (CHOOSE r \in table : r.id = token).user_id
    ELSE None

\* verify_refresh_token(token, session): the user, or None
verify_refresh_token(token, table, t) ==
    IF \E r \in table : r.id = token /\ r.is_active /\ r.expires_at > t
    THEN (CHOOSE r \in table : r.id = token).user_id
    ELSE None

\* invalidate_refresh_token(token, session): found, and the table if committed
invalidate_refresh_token(token, table) ==
    IF \E r \in table : r.id = token /\ r.is_active
    THEN [found |-> TRUE,
          table |-> { IF r.id = token THEN [r EXCEPT !.is_active = FALSE] ELSE r :
                        r \in table }]
    ELSE [found |-> FALSE, table |-> table]

\* invalidate_all_user_tokens(user_id, session)
invalidate_all_user_tokens(user_id, table, t) ==
    { r \in cleanup_expired_tokens(user_id, table, t) : r.user_id # user_id }

\* cleanup_all_expired_tokens(session)
cleanup_all_expired_tokens(table, t) ==
    { r \in table :
        ~(\/ r.expires_at < t
          \/ (~r.is_active /\ r.created_at < t - days(InactiveRetentionDays))) }

rows_of(u, table) == { r \in table : r.user_id = u }

\* the run of consecutive logins of a user ends when another request changes
\* the user's rows
history_after(table) ==
    [u \in Users |-> IF rows_of(u, table) = rows_of(u, tokens) THEN issued[u] ELSE <<>>]

\* POST /auth/login with valid credentials
Login(u) ==
    /\ serial < MaxIssued
    /\ tokens' = create_refresh_token(u, cleanup_expired_tokens(u, tokens, now), now,
                                      serial + 1)
    /\ serial' = serial + 1
    /\ now' = now + 1
    /\ issued' = [issued EXCEPT ![u] = Append(@, [id |-> serial + 1, at |-> now])]
    /\ auth' = Response("login", u, 0, 200, serial + 1)
    /\ UNCHANGED <<ragVars, extVars, syncVars>>

\* POST /auth/login with a wrong user name or password
LoginRejected ==
    /\ auth' = Response("login", None, 0, 401, 0)
    /\ UNCHANGED <<tokens, serial, now, issued, ragVars, extVars, syncVars>>

\* POST /auth/refresh with the cookie refresh_token = token (0: no cookie)
Refresh(token) ==
    LET user == IF token = 0 THEN None ELSE verify_refresh_token(token, tokens, now) IN
    /\ IF user = None
       THEN /\ auth' = Response("refresh", None, token, 401, 0)
            /\ UNCHANGED <<tokens, serial, issued, now>>
       ELSE /\ serial < MaxIssued
            /\ tokens' = create_refresh_token(user, tokens, now, serial + 1)
            /\ serial' = serial + 1
            /\ now' = now + 1
            /\ issued' = history_after(tokens')
            /\ auth' = Response("refresh", user, token, 200, serial + 1)
    /\ UNCHANGED <<ragVars, extVars, syncVars>>

\* POST /auth/logout of user u with the cookie refresh_token = token
Logout(u, token) ==
    LET cleaned == cleanup_expired_tokens(u, tokens, now)
        done == invalidate_refresh_token(token, cleaned)
    IN  /\ tokens' = IF token # 0 /\ done.found THEN done.table ELSE tokens
        /\ issued' = history_after(tokens')
        /\ auth' = Response("logout", None, 0, 200, 0)
        /\ UNCHANGED <<serial, now, ragVars, extVars, syncVars>>

\* POST /auth/logout-all of user u
LogoutAll(u) ==
    /\ tokens' = invalidate_all_user_tokens(u, tokens, now)
    /\ issued' = history_after(tokens')
    /\ auth' = Response("logout-all", None, 0, 200, 0)
    /\ UNCHANGED <<serial, now, ragVars, extVars, syncVars>>

\* POST /auth/cleanup-tokens by an administrator
CleanupTokens ==
    /\ tokens' = cleanup_all_expired_tokens(tokens, now)
    /\ issued' = history_after(tokens')
    /\ auth' = Response("cleanup-tokens", None, 0, 200, 0)
    /\ UNCHANGED <<serial, now, ragVars, extVars, syncVars>>

\* time passes between two requests
Pass(d) ==
    /\ now + days(d) <= days(MaxDays)
    /\ now' = now + days(d)
    /\ UNCHANGED <<tokens, serial, issued, auth, ragVars, extVars, syncVars>>

(***************************************************************************)
(* The handlers above are plain `def` functions: the server runs each      *)
(* request on a thread of its pool, with a database session of its own,    *)
(* and nothing orders two requests but the commits of the database.  A     *)
(* worker's step is one statement that reads or commits.                   *)
(***************************************************************************)
Procs == {"p1", "p2"}

Idle == [pc |-> "idle", op |-> None, arg |-> None, local |-> <<>>]
ProcIdle == proc = [p \in Procs |-> Idle]

in_flight == Cardinality({ p \in Procs : proc[p].pc # "idle" })

\* login up to create_token_pair: the credentials are right, the expired
\* tokens of the user are deleted (auth_router 42-51)
login_begin(p, u) ==
    /\ proc[p].pc = "idle"
    /\ serial + in_flight < MaxIssued
    /\ tokens' = cleanup_expired_tokens(u, tokens, now)
    /\ proc' = [proc EXCEPT ![p] = [pc |-> "select", op |-> "login", arg |-> u,
                                    local |-> <<>>]]
    /\ UNCHANGED <<serial, now, issued, auth, ragVars, syncVars, widgetVars, chatVars>>

\* refresh up to create_token_pair: the cookie is verified (auth_router 77-89)
refresh_begin(p, token) ==
    /\ proc[p].pc = "idle"
    /\ serial + in_flight < MaxIssued
    /\ LET user == IF token = 0 THEN None ELSE verify_refresh_token(token, tokens, now) IN
       IF user = None
       THEN /\ auth' = Response("refresh", None, token, 401, 0)
            /\ UNCHANGED proc
       ELSE /\ proc' = [proc EXCEPT ![p] = [pc |-> "select", op |-> "refresh",
                                            arg |-> user, local |-> <<>>]]
            /\ UNCHANGED auth
    /\ UNCHANGED <<tokens, serial, now, issued, ragVars, syncVars, widgetVars, chatVars>>

\* create_refresh_token, lines 90-108: cleanup, then the SELECT of the active
\* tokens into the worker's session
read_active_tokens(p) ==
    /\ proc[p].pc = "select"
    /\ tokens' = cleanup_expired_tokens(proc[p].arg, tokens, now)
    /\ proc' = [proc EXCEPT ![p].pc = "commit",
                            ![p].local = select_active_tokens(proc[p].arg, tokens')]
    /\ UNCHANGED <<serial, now, issued, auth, ragVars, syncVars, widgetVars, chatVars>>

\* create_refresh_token, lines 110-125: the commit of the worker's session
commit_refresh_token(p) ==
    /\ proc[p].pc = "commit"
    /\ tokens' = store_refresh_token(proc[p].arg, tokens, proc[p].local, now, serial + 1)
    /\ serial' = serial + 1
    /\ now' = now + 1
    /\ auth' = Response(proc[p].op, proc[p].arg, 0, 200, serial + 1)
    /\ proc' = [proc EXCEPT ![p] = Idle]
    /\ UNCHANGED <<issued, ragVars, syncVars, widgetVars, chatVars>>

(***************************************************************************)
(* Data sources: routers/data_router.py, routers/clickup_router.py,        *)
(* services/clickup_service.py and the embedding methods of                *)
(* services/vector_service.py.  A file is what a loader finds in it:       *)
(* "absent", a PDF with "nopages" or with "pages", a "blank" or a "text"   *)
(* text file.                                                              *)
(***************************************************************************)
MaxSources == 3
MaxChunks == 2
MaxStamps == 2

Null == 0 - 1
Refs == {"a.pdf", "b.txt"}
Tasks == {"t1"}
clickup_filename(task_id) == "clickup_t1.txt"
clickup_path(task_id) == "data/clickup_t1.txt"
Names == Refs \cup { clickup_filename(t) : t \in Tasks }
Paths == (Workspaces \cup {"data"}) \X Names
NoPath == <<>>

IsPdf(reference) == reference = "a.pdf"
UploadContents(reference) ==
    IF IsPdf(reference) THEN {"nopages", "pages"} ELSE {"text"}

DataSource(source_type, reference, workspace_id, path, last_synced_at) ==
    [source_type |-> source_type, reference |-> reference,
     workspace_id |-> workspace_id, path |-> path, is_synced |-> Null,
     last_synced_at |-> last_synced_at]

NoRow == DataSource(None, None, None, NoPath, 0)

\* loader.load() of a "file" source: the number of Documents and whether
\* their text is blank, or an error
load(reference, content) ==
    IF IsPdf(reference)
    THEN CASE content = "nopages" -> [error |-> FALSE, docs |-> 0, blank |-> TRUE]
           [] content = "pages" -> [error |-> FALSE, docs |-> 1, blank |-> FALSE]
           [] OTHER -> [error |-> TRUE, docs |-> 0, blank |-> TRUE]
    ELSE CASE content = "blank" -> [error |-> FALSE, docs |-> 1, blank |-> TRUE]
           [] content = "text" -> [error |-> FALSE, docs |-> 1, blank |-> FALSE]
           [] OTHER -> [error |-> TRUE, docs |-> 0, blank |-> TRUE]

\* process_documents_for_embedding(docs, file_paths): the Documents it
\* builds carry the text of the source and no metadata
process_documents_for_embedding(loaded, reference, ws) ==
    IF loaded.docs = 0 \/ loaded.blank THEN <<>> ELSE <<Chunk(reference, ws, 1)>>

\* _process_single_datasource(datasource): the chunks it adds
process_single_datasource(ds, fs) ==
    LET file_path == IF ds.path # NoPath THEN ds.path ELSE <<"data", ds.reference>>
        loaded == IF file_path \in Paths THEN load(ds.reference, fs[file_path])
                  ELSE load(ds.reference, "absent")
    IN  IF ds.source_type # "file" \/ loaded.error \/ loaded.docs = 0
        THEN <<>>
        ELSE process_documents_for_embedding(loaded, ds.reference, ds.workspace_id)

\* the loop over the sources with is_synced == 1, in the order of the ids
RECURSIVE embed_synced(_, _, _)
embed_synced(rows, fs, i) ==
    IF i > Len(rows) THEN <<>>
    ELSE (IF rows[i].is_synced = 1 THEN process_single_datasource(rows[i], fs) ELSE <<>>)
            \o embed_synced(rows, fs, i + 1)

\* embed_content_string(content, source_reference)
embed_content_string(content, source_reference) ==
    IF content = "blank" THEN <<>>
    ELSE process_documents_for_embedding(
            [error |-> FALSE, docs |-> 1, blank |-> FALSE], source_reference, None)

\* select(DataSource).where(DataSource.reference == reference).first(): an id or 0
first_with_reference(rows, reference) ==
    IF \E i \in 1..Len(rows) : rows[i].reference = reference
    THEN CHOOSE i \in 1..Len(rows) :
            /\ rows[i].reference = reference
            /\ \A j \in 1..(i - 1) : rows[j].reference # reference
    ELSE 0


\* session.get(DataSource, id) finds a row
has_row(rows, id) == id <= Len(rows) /\ rows[id] # NoRow

Entry(op, id, status) == [op |-> op, id |-> id, status |-> status]
NoLast == Entry(None, 0, 0)

SyncIdle ==
    /\ datasource = <<>> /\ files = [p \in Paths |-> "absent"]
    /\ last = NoLast

\* POST /data/upload of one file
upload_file(ws, reference, content) ==
    /\ Len(datasource) < MaxSources
    /\ files' = [files EXCEPT ![<<ws, reference>>] = content]
    /\ datasource' = Append(datasource,
                        DataSource("file", reference, ws, <<ws, reference>>, 0))
    /\ last' = Entry("upload", 0, 200)
    /\ UNCHANGED <<store, now, ragVars, extVars, tokens, serial, issued, auth>>

\* POST /data/regular/{source_id}/sync
sync_regular_source(id) ==
    /\ IF ~has_row(datasource, id)
       THEN /\ last' = Entry("sync", id, 404)
            /\ UNCHANGED <<datasource, now>>
       ELSE LET ds == datasource[id]
                filepath == <<ds.workspace_id, ds.reference>>
                loaded == IF filepath \in Paths THEN load(ds.reference, files[filepath])
                          ELSE load(ds.reference, "absent")
            IN  IF loaded.error
                THEN /\ last' = Entry("sync", id, 400)
                     /\ UNCHANGED <<datasource, now>>
                ELSE IF loaded.docs > 0
                THEN \* process_documents_for_embedding() takes 2 positional
                     \* arguments but 3 were given: TypeError
                     /\ last' = Entry("sync", id, 500)
                     /\ UNCHANGED <<datasource, now>>
                ELSE /\ now < MaxStamps
                     /\ datasource' = [datasource EXCEPT ![id].is_synced = 1,
                                                         ![id].last_synced_at = now + 1]
                     /\ now' = now + 1
                     /\ last' = Entry("sync", id, 200)
    /\ UNCHANGED <<store, files, ragVars, extVars, tokens, serial, issued, auth>>

\* POST /data/regular/{source_id}/unsync: delete_documents_by_source is not a
\* method of VectorStoreService, the AttributeError is logged
unsync_regular_source(id) ==
    /\ IF ~has_row(datasource, id)
       THEN /\ last' = Entry("unsync", id, 404)
            /\ UNCHANGED datasource
       ELSE /\ datasource' = [datasource EXCEPT ![id].is_synced = 0]
            /\ last' = Entry("unsync", id, 200)
    /\ UNCHANGED <<store, files, now, ragVars, extVars, tokens, serial, issued, auth>>

\* POST /data/files/{filename}/content
save_file_content(ws, filename, content) ==
    LET id == first_with_reference(datasource, filename) IN
    /\ files' = [files EXCEPT ![<<ws, filename>>] = content]
    /\ datasource' = IF id = 0 THEN datasource
                     ELSE [datasource EXCEPT ![id].is_synced = 0]
    /\ last' = Entry("save", 0, 200)
    /\ UNCHANGED <<store, now, ragVars, extVars, tokens, serial, issued, auth>>

\* POST /data/external/{source_id}/clickup/tickets/{ticket_id}/sync:
\* ClickUpService.sync_task writes the file; embed_content_string() takes 3
\* positional arguments but 4 were given, so nothing is embedded or committed
sync_clickup_task(ws, ticket_id) ==
    LET filename == clickup_filename(ticket_id)
        id == first_with_reference(datasource, filename)
    IN  /\ files' = [files EXCEPT ![<<ws, filename>>] = "text"]
        /\ last' = Entry("sync_task", 0, 200)
        /\ UNCHANGED <<store, datasource, now, ragVars, extVars, tokens, serial, issued, auth>>

\* POST /clickup/sync of one task: the row is inserted or stamped and
\* committed (lines 251-258), then the text is embedded (260-263); when the
\* embedding raises (the embedder or the index fails) the request ends there
sync_tasks(task_id, embed_raises) ==
    LET file_path == clickup_path(task_id)
        filename == clickup_filename(task_id)
        id == first_with_reference(datasource, file_path)
    IN  /\ now < MaxStamps
        /\ Len(store) < MaxChunks
        /\ id = 0 => Len(datasource) < MaxSources
        /\ files' = [files EXCEPT ![<<"data", filename>>] = "text"]
        /\ datasource' =
              IF id = 0
              THEN Append(datasource, DataSource("file", file_path, None, NoPath, now + 1))
              ELSE [datasource EXCEPT ![id].last_synced_at = now + 1]
        /\ now' = now + 1
        /\ IF embed_raises
           THEN /\ UNCHANGED store
                /\ last' = Entry("sync_tasks", 0, 500)
           ELSE /\ store' = store \o embed_content_string("text", filename)
                /\ last' = Entry("sync_tasks", 0, 200)
        /\ UNCHANGED <<ragVars, extVars, tokens, serial, issued, auth>>

\* POST /data/debug/reload-vector-store
reload_vector_store ==
    /\ store' = embed_synced(datasource, files, 1)
    /\ Len(store') <= MaxChunks
    /\ last' = Entry("reload", 0, 200)
    /\ UNCHANGED <<datasource, files, now, ragVars, extVars, tokens, serial, issued, auth>>

\* a restart of the application: load_documents_from_data_folder()
load_documents_from_data_folder ==
    /\ store' = IF Len(store) > 0 THEN store ELSE embed_synced(datasource, files, 1)
    /\ Len(store') <= MaxChunks
    /\ last' = Entry("startup", 0, 200)
    /\ UNCHANGED <<datasource, files, now, ragVars, extVars, tokens, serial, issued, auth>>

(***************************************************************************)
(* sync_regular_source and unsync_regular_source are plain `def` handlers  *)
(* too: a worker thread serves each, statement by statement, with no lock. *)
(* local = <<documents loaded, vector service called>>.                    *)
(***************************************************************************)
\* sync: session.get, then the loader (data_router 860-962)
sync_begin(p, id) ==
    /\ proc[p].pc = "idle"
    /\ now + in_flight < MaxStamps
    /\ IF ~has_row(datasource, id)
       THEN /\ last' = Entry("sync", id, 404)
            /\ UNCHANGED proc
       ELSE LET ds == datasource[id]
                filepath == <<ds.workspace_id, ds.reference>>
                loaded == IF filepath \in Paths THEN load(ds.reference, files[filepath])
                          ELSE load(ds.reference, "absent")
            IN  IF loaded.error
                THEN /\ last' = Entry("sync", id, 400)
                     /\ UNCHANGED proc
                ELSE /\ proc' = [proc EXCEPT ![p] = [pc |-> "embed", op |-> "sync",
                                                     arg |-> id,
                                                     local |-> <<loaded.docs, FALSE>>]]
                     /\ UNCHANGED last
    /\ UNCHANGED <<store, datasource, files, now, ragVars, widgetVars, chatVars,
                   tokens, serial, issued, auth>>

\* sync: the embedding (data_router 964-970); with documents the call of
\* process_documents_for_embedding raises TypeError and the request ends
sync_embed(p) ==
    /\ proc[p].pc = "embed"
    /\ IF proc[p].local[1] > 0
       THEN /\ last' = Entry("sync", proc[p].arg, 500)
            /\ proc' = [proc EXCEPT ![p] = Idle]
       ELSE /\ proc' = [proc EXCEPT ![p].pc = "commit"]
            /\ UNCHANGED last
    /\ UNCHANGED <<store, datasource, files, now, ragVars, widgetVars, chatVars,
                   tokens, serial, issued, auth>>

\* sync: the row is marked and the session commits (data_router 972-976, 866)
sync_commit(p) ==
    /\ proc[p].pc = "commit" /\ proc[p].op = "sync"
    /\ datasource' = [datasource EXCEPT ![proc[p].arg].is_synced = 1,
                                        ![proc[p].arg].last_synced_at = now + 1]
    /\ now' = now + 1
    /\ last' = Entry("sync", proc[p].arg, 200)
    /\ proc' = [proc EXCEPT ![p] = Idle]
    /\ UNCHANGED <<store, files, ragVars, widgetVars, chatVars, tokens, serial, issued, auth>>

\* unsync: session.get (data_router 877-879)
unsync_begin(p, id) ==
    /\ proc[p].pc = "idle"
    /\ IF ~has_row(datasource, id)
       THEN /\ last' = Entry("unsync", id, 404)
            /\ UNCHANGED proc
       ELSE /\ proc' = [proc EXCEPT ![p] = [pc |-> "delete", op |-> "unsync",
                                            arg |-> id, local |-> <<0, FALSE>>]]
            /\ UNCHANGED last
    /\ UNCHANGED <<store, datasource, files, now, ragVars, widgetVars, chatVars,
                   tokens, serial, issued, auth>>

\* unsync: the call of delete_documents_by_source on the vector service; the
\* AttributeError is caught and logged (data_router 882-887)
unsync_delete(p) ==
    /\ proc[p].pc = "delete"
    /\ proc' = [proc EXCEPT ![p].pc = "commit", ![p].local = <<0, TRUE>>]
    /\ UNCHANGED <<store, datasource, files, last, now, ragVars, widgetVars, chatVars,
                   tokens, serial, issued, auth>>

\* unsync: is_synced = 0 and the commit (data_router 889-890)
unsync_commit(p) ==
    /\ proc[p].pc = "commit" /\ proc[p].op = "unsync"
    /\ datasource' = [datasource EXCEPT ![proc[p].arg].is_synced = 0]
    /\ last' = Entry("unsync", proc[p].arg, 200)
    /\ proc' = [proc EXCEPT ![p] = Idle]
    /\ UNCHANGED <<store, files, now, ragVars, widgetVars, chatVars, tokens, serial, issued, auth>>

(***************************************************************************)
(* The batch operations and the deletion of a source.  A batch is a loop   *)
(* that commits or rolls back once per source; the worker that serves it   *)
(* holds local = <<sources to go, synced or unsynced count, failed         *)
(* sources, sources selected>>, the sources by id.                         *)
(***************************************************************************)
\* ~DataSource.reference.like("clickup_%") fails on these references
like_clickup_prefix(reference) == reference \in { clickup_filename(t) : t \in Tasks }

\* the ids of the rows of the table, in the order of a SELECT
row_ids(rows) == SelectSeq([i \in 1..Len(rows) |-> i], LAMBDA i : rows[i] # NoRow)

\* the non-external sources of a workspace whose is_synced is not 1, the
\* unset ones included
unsynced_or_unset_sources(rows, ws) ==
    SelectSeq(row_ids(rows), LAMBDA i : /\ rows[i].is_synced # 1
                                        /\ rows[i].workspace_id = ws
                                        /\ ~like_clickup_prefix(rows[i].reference))

\* sync_all_sources, lines 990-996: in SQL `is_synced != 1` is not true of a
\* row whose is_synced is NULL
unsynced_sources(rows, ws) ==
    SelectSeq(row_ids(rows), LAMBDA i : /\ rows[i].is_synced # Null /\ rows[i].is_synced # 1
                                        /\ rows[i].workspace_id = ws
                                        /\ ~like_clickup_prefix(rows[i].reference))

\* unsync_all_sources, lines 1038-1044
synced_sources(rows, ws) ==
    SelectSeq(row_ids(rows), LAMBDA i : /\ rows[i].is_synced = 1
                                        /\ rows[i].workspace_id = ws
                                        /\ ~like_clickup_prefix(rows[i].reference))

\* POST /datasources/regular/sync: the query
sync_all_begin(p, ws) ==
    LET selected == unsynced_sources(datasource, ws) IN
    /\ proc[p].pc = "idle"
    /\ now + Len(selected) <= MaxStamps
    /\ proc' = [proc EXCEPT ![p] = [pc |-> "loop", op |-> "sync_all", arg |-> ws,
                                    local |-> <<selected, 0, <<>>, selected>>]]
    /\ last' = Entry("sync_all", 0, 0)
    /\ UNCHANGED <<store, datasource, files, now, ragVars, widgetVars, chatVars,
                   tokens, serial, issued, auth>>

\* A loop that stops at the first source that fails.
sync_all_step_aborting(p) ==
    LET id == Head(proc[p].local[1])
        ds == datasource[id]
        filepath == <<ds.workspace_id, ds.reference>>
        loaded == IF filepath \in Paths THEN load(ds.reference, files[filepath])
                  ELSE load(ds.reference, "absent")
    IN  /\ proc[p].pc = "loop" /\ proc[p].op = "sync_all" /\ proc[p].local[1] # <<>>
        /\ IF loaded.error \/ loaded.docs > 0
           THEN /\ proc' = [proc EXCEPT ![p] = Idle]
                /\ last' = Entry("sync_all", 0, 500)
                /\ UNCHANGED <<datasource, now>>
           ELSE /\ datasource' = [datasource EXCEPT ![id].is_synced = 1,
                                                   ![id].last_synced_at = now + 1]
                /\ now' = now + 1
                /\ proc' = [proc EXCEPT ![p].local[1] = Tail(@), ![p].local[2] = @ + 1]
                /\ UNCHANGED last
        /\ UNCHANGED <<store, files, ragVars, widgetVars, chatVars, tokens, serial, issued, auth>>

\* one turn of the loop of sync_all_sources (lines 1010-1020): the source is
\* synced and committed, or the exception (HTTPException of the loader, the
\* TypeError of the embedding) is caught, rolled back and recorded
sync_all_step(p) ==
    LET id == Head(proc[p].local[1])
        ds == datasource[id]
        filepath == <<ds.workspace_id, ds.reference>>
        loaded == IF filepath \in Paths THEN load(ds.reference, files[filepath])
                  ELSE load(ds.reference, "absent")
    IN  /\ proc[p].pc = "loop" /\ proc[p].op = "sync_all" /\ proc[p].local[1] # <<>>
        /\ IF loaded.error \/ loaded.docs > 0
           THEN /\ proc' = [proc EXCEPT ![p].local[1] = Tail(@),
                                        ![p].local[3] = Append(@, id)]
                /\ UNCHANGED <<datasource, now>>
           ELSE /\ datasource' = [datasource EXCEPT ![id].is_synced = 1,
                                                   ![id].last_synced_at = now + 1]
                /\ now' = now + 1
                /\ proc' = [proc EXCEPT ![p].local[1] = Tail(@), ![p].local[2] = @ + 1]
        /\ UNCHANGED <<store, files, last, ragVars, widgetVars, chatVars, tokens, serial, issued, auth>>

\* the response of sync_all_sources: "no_sources_to_sync" (lines 998-1004)
\* or "completed" (lines 1022-1028)
sync_all_end(p) ==
    /\ proc[p].pc = "loop" /\ proc[p].op = "sync_all" /\ proc[p].local[1] = <<>>
    /\ last' = Entry("sync_all", 0, 200)
    /\ proc' = [proc EXCEPT ![p] = Idle]
    /\ UNCHANGED <<store, datasource, files, now, ragVars, widgetVars, chatVars,
                   tokens, serial, issued, auth>>

\* POST /datasources/regular/unsync: the query
unsync_all_begin(p, ws) ==
    LET selected == synced_sources(datasource, ws) IN
    /\ proc[p].pc = "idle"
    /\ proc' = [proc EXCEPT ![p] = [pc |-> "loop", op |-> "unsync_all", arg |-> ws,
                                    local |-> <<selected, 0, <<>>, selected>>]]
    /\ last' = Entry("unsync_all", 0, 0)
    /\ UNCHANGED <<store, datasource, files, now, ragVars, widgetVars, chatVars,
                   tokens, serial, issued, auth>>

\* one turn of the loop of unsync_all_sources (lines 1054-1070):
\* delete_documents_by_source is not a method of VectorStoreService, the
\* AttributeError is caught, rolled back and recorded; is_synced stays
unsync_all_step(p) ==
    /\ proc[p].pc = "loop" /\ proc[p].op = "unsync_all" /\ proc[p].local[1] # <<>>
    /\ proc' = [proc EXCEPT ![p].local[1] = Tail(@),
                            ![p].local[3] = Append(@, Head(proc[p].local[1]))]
    /\ UNCHANGED <<store, datasource, files, last, now, ragVars, widgetVars, chatVars,
                   tokens, serial, issued, auth>>

\* rebuild_vector_store(session): the store is reset, then every source with
\* is_synced == 1 is embedded again
rebuild_vector_store(rows, fs) == embed_synced(rows, fs, 1)

\* the end of unsync_all_sources: "no_sources_to_unsync" (lines 1046-1050),
\* or the rebuild and "completed" (1072-1080)
unsync_all_end(p) ==
    /\ proc[p].pc = "loop" /\ proc[p].op = "unsync_all" /\ proc[p].local[1] = <<>>
    /\ store' = IF proc[p].local[4] = <<>> THEN store
                ELSE rebuild_vector_store(datasource, files)
    /\ Len(store') <= MaxChunks
    /\ last' = Entry("unsync_all", 0, 200)
    /\ proc' = [proc EXCEPT ![p] = Idle]
    /\ UNCHANGED <<datasource, files, now, ragVars, widgetVars, chatVars, tokens, serial, issued, auth>>

\* DELETE /datasources/{source_id}: delete_documents_by_source raises
\* AttributeError, which is logged; the file data/<reference> and the row go
delete_source(id) ==
    /\ IF ~has_row(datasource, id)
       THEN /\ last' = Entry("delete", id, 404)
            /\ UNCHANGED <<datasource, files>>
       ELSE /\ files' = IF <<"data", datasource[id].reference>> \in Paths
                        THEN [files EXCEPT ![<<"data", datasource[id].reference>>] = "absent"]
                        ELSE files
            /\ datasource' = [datasource EXCEPT ![id] = NoRow]
            /\ last' = Entry("delete", id, 200)
    /\ UNCHANGED <<store, now, ragVars, extVars, tokens, serial, issued, auth>>

(***************************************************************************)
(* Widget sessions (routers/widget_router.py).  The handlers are modelled  *)
(* from the router; the ChatSession table and the setting                  *)
(* widget_max_sessions_per_bot are declared outside the sources at hand    *)
(* and are taken from the specification of the system.                     *)
(***************************************************************************)
Bots == {"b1", "b2"}

\* the configured cap on the active sessions of a bot
widget_max_sessions_per_bot == 2

\* a ChatSession row as start_session creates it
ChatSession(bot_id) == [bot_id |-> bot_id, is_active |-> TRUE, messages_count |-> 0]

WidgetResponse(op, bot_id, status, created) ==
    [op |-> op, bot_id |-> bot_id, status |-> status, created |-> created]
NoWidget == WidgetResponse(None, None, 0, 0)

WidgetIdle ==
    /\ bot = [b \in Bots |-> "none"]
    /\ widget_token = [b \in Bots |-> "none"]
    /\ chat_session = <<>>
    /\ widget = NoWidget

\* select(func.count(ChatSession.id)) of the active sessions of the bot
active_sessions_count(bot_id, rows) ==
    Cardinality({ i \in 1..Len(rows) : rows[i].bot_id = bot_id /\ rows[i].is_active })

\* A cap test that lets one session more through.
limit_exceeded(count) == count > widget_max_sessions_per_bot

\* line 321: the test against the cap
limit_reached(count) == count >= widget_max_sessions_per_bot

\* POST /widget/bots
create_bot(b) ==
    /\ bot[b] = "none"
    /\ bot' = [bot EXCEPT ![b] = "active"]
    /\ widget' = WidgetResponse("create_bot", b, 200, 0)
    /\ UNCHANGED <<widget_token, chat_session, ragVars, syncVars, authVars, procVars, chatVars>>

\* PUT /widget/bots/{bot_id} with is_active set
update_bot(b, is_active) ==
    /\ IF bot[b] \in {"none", "deleted"}
       THEN /\ widget' = WidgetResponse("update_bot", b, 404, 0)
            /\ UNCHANGED bot
       ELSE /\ bot' = [bot EXCEPT ![b] = IF is_active THEN "active" ELSE "inactive"]
            /\ widget' = WidgetResponse("update_bot", b, 200, 0)
    /\ UNCHANGED <<widget_token, chat_session, ragVars, syncVars, authVars, procVars, chatVars>>

\* DELETE /widget/bots/{bot_id}: tokens revoked, sessions deactivated, row deleted
delete_bot(b) ==
    /\ IF bot[b] \in {"none", "deleted"}
       THEN /\ widget' = WidgetResponse("delete_bot", b, 404, 0)
            /\ UNCHANGED <<bot, widget_token, chat_session>>
       ELSE /\ widget_token' = [widget_token EXCEPT
                                   ![b] = IF @ = "active" THEN "revoked" ELSE @]
            /\ chat_session' = [i \in 1..Len(chat_session) |->
                                   IF chat_session[i].bot_id = b
                                   THEN [chat_session[i] EXCEPT !.is_active = FALSE]
                                   ELSE chat_session[i]]
            /\ bot' = [bot EXCEPT ![b] = "deleted"]
            /\ widget' = WidgetResponse("delete_bot", b, 200, 0)
    /\ UNCHANGED <<ragVars, syncVars, authVars, procVars, chatVars>>

\* POST /widget/generate for a bot of the user
generate_widget(b) ==
    /\ IF bot[b] \in {"none", "deleted"}
       THEN /\ widget' = WidgetResponse("generate", b, 404, 0)
            /\ UNCHANGED widget_token
       ELSE IF bot[b] = "inactive"
       THEN /\ widget' = WidgetResponse("generate", b, 400, 0)
            /\ UNCHANGED widget_token
       ELSE /\ widget_token' = [widget_token EXCEPT ![b] = "active"]
            /\ widget' = WidgetResponse("generate", b, 200, 0)
    /\ UNCHANGED <<bot, chat_session, ragVars, syncVars, authVars, procVars, chatVars>>

\* A revocation that also closes the sessions opened with the tokens.
revoke_token_closing_sessions(b) ==
    /\ IF bot[b] \in {"none", "deleted"}
       THEN /\ widget' = WidgetResponse("revoke", b, 404, 0)
            /\ UNCHANGED <<widget_token, chat_session>>
       ELSE /\ widget_token' = [widget_token EXCEPT
                                   ![b] = IF @ = "active" THEN "revoked" ELSE @]
            /\ chat_session' = [i \in 1..Len(chat_session) |->
                                   IF chat_session[i].bot_id = b
                                   THEN [chat_session[i] EXCEPT !.is_active = FALSE]
                                   ELSE chat_session[i]]
            /\ widget' = WidgetResponse("revoke", b, 200, 0)
    /\ UNCHANGED <<bot, ragVars, syncVars, authVars, procVars, chatVars>>

\* POST /widget/revoke of every token of the bot
revoke_token(b) ==
    /\ IF bot[b] \in {"none", "deleted"}
       THEN /\ widget' = WidgetResponse("revoke", b, 404, 0)
            /\ UNCHANGED widget_token
       ELSE /\ widget_token' = [widget_token EXCEPT
                                   ![b] = IF @ = "active" THEN "revoked" ELSE @]
            /\ widget' = WidgetResponse("revoke", b, 200, 0)
    /\ UNCHANGED <<bot, chat_session, ragVars, syncVars, authVars, procVars, chatVars>>

\* POST /widget/session/start with the widget token of bot b
start_session(b) ==
    /\ IF widget_token[b] # "active"
       THEN /\ widget' = WidgetResponse("start", b, 401, 0)
            /\ UNCHANGED chat_session
       ELSE IF bot[b] \in {"none", "deleted"}
       THEN /\ widget' = WidgetResponse("start", b, 404, 0)
            /\ UNCHANGED chat_session
       ELSE IF bot[b] = "inactive"
       THEN /\ widget' = WidgetResponse("start", b, 503, 0)
            /\ UNCHANGED chat_session
       ELSE IF limit_reached(active_sessions_count(b, chat_session))
       THEN /\ widget' = WidgetResponse("start", b, 429, 0)
            /\ UNCHANGED chat_session
       ELSE /\ chat_session' = Append(chat_session, ChatSession(b))
            /\ widget' = WidgetResponse("start", b, 200, 1)
    /\ UNCHANGED <<bot, widget_token, ragVars, syncVars, authVars, procVars, chatVars>>

\* POST /widget/refresh with the widget token of bot b: the token is replaced
\* by a new active one when it is active and the bot is
refresh_token(b) ==
    /\ widget' = WidgetResponse("refresh", b,
                    IF widget_token[b] = "active" /\ bot[b] = "active" THEN 200 ELSE 401, 0)
    /\ UNCHANGED <<bot, widget_token, chat_session, ragVars, syncVars, authVars,
                   procVars, chatVars>>

(***************************************************************************)
(* The requests of the visitors served concurrently.  start_session is a   *)
(* plain `def`: a worker thread runs it statement by statement.            *)
(* send_message is an `async def` without await: its dependencies run in   *)
(* the thread pool, its body runs on the event loop, one body at a time.   *)
(* local = <<session id, value read>>.                                     *)
(***************************************************************************)
\* the most messages a session takes
MaxMessages == 1

\* the dependency get_widget_token_from_request of POST /widget/session/start
session_verify(p, b) ==
    /\ proc[p].pc = "idle"
    /\ IF widget_token[b] # "active"
       THEN /\ widget' = WidgetResponse("start", b, 401, 0)
            /\ UNCHANGED proc
       ELSE /\ widget' = WidgetResponse("start", b, 0, 0)
            /\ proc' = [proc EXCEPT ![p] = [pc |-> "count", op |-> "start", arg |-> b,
                                            local |-> <<0, 0>>]]
    /\ UNCHANGED <<bot, widget_token, chat_session, ragVars, syncVars, authVars, chatVars>>

\* start_session up to the test of the count (lines 299-325)
session_count(p) ==
    LET b == proc[p].arg IN
    /\ proc[p].pc = "count" /\ proc[p].op = "start"
    /\ IF bot[b] \in {"none", "deleted"}
       THEN /\ widget' = WidgetResponse("start", b, 404, 0)
            /\ proc' = [proc EXCEPT ![p] = Idle]
       ELSE IF bot[b] = "inactive"
       THEN /\ widget' = WidgetResponse("start", b, 503, 0)
            /\ proc' = [proc EXCEPT ![p] = Idle]
       ELSE IF limit_reached(active_sessions_count(b, chat_session))
       THEN /\ widget' = WidgetResponse("start", b, 429, 0)
            /\ proc' = [proc EXCEPT ![p] = Idle]
       ELSE /\ widget' = WidgetResponse("start", b, 0, 0)
            /\ proc' = [proc EXCEPT ![p].pc = "insert"]
    /\ UNCHANGED <<bot, widget_token, chat_session, ragVars, syncVars, authVars, chatVars>>

\* start_session from the insert on (lines 327-353)
session_insert(p) ==
    /\ proc[p].pc = "insert" /\ proc[p].op = "start"
    /\ chat_session' = Append(chat_session, ChatSession(proc[p].arg))
    /\ widget' = WidgetResponse("start", proc[p].arg, 200, 1)
    /\ proc' = [proc EXCEPT ![p] = Idle]
    /\ UNCHANGED <<bot, widget_token, ragVars, syncVars, authVars, chatVars>>

\* the dependency get_widget_token_from_request of POST /widget/chat
message_verify(p, b, session_id) ==
    /\ proc[p].pc = "idle"
    /\ IF widget_token[b] # "active"
       THEN /\ widget' = WidgetResponse("chat", b, 401, 0)
            /\ UNCHANGED proc
       ELSE /\ widget' = WidgetResponse("chat", b, 0, 0)
            /\ proc' = [proc EXCEPT ![p] = [pc |-> "body", op |-> "chat", arg |-> b,
                                            local |-> <<session_id, 0>>]]
    /\ UNCHANGED <<bot, widget_token, chat_session, ragVars, syncVars, authVars, chatVars>>

\* A scheduler that starts a body while another body is running.
loop_always_free(p) == TRUE

\* `async def send_message`: the event loop runs the body of one request to
\* its end before it starts the body of another
loop_is_free(p) ==
    \A q \in Procs \ {p} : ~(proc[q].op = "chat" /\ proc[q].pc = "commit")

\* send_message up to the call of the pipeline (lines 368-396): the session
\* of the bot is read
message_check(p) ==
    LET b == proc[p].arg
        id == proc[p].local[1]
    IN  /\ proc[p].pc = "body" /\ proc[p].op = "chat"
        /\ loop_is_free(p)
        /\ IF id > Len(chat_session) \/ chat_session[id].bot_id # b
           THEN /\ widget' = WidgetResponse("chat", b, 404, 0)
                /\ proc' = [proc EXCEPT ![p] = Idle]
           ELSE IF ~chat_session[id].is_active
           THEN /\ widget' = WidgetResponse("chat", b, 410, 0)
                /\ proc' = [proc EXCEPT ![p] = Idle]
           ELSE IF bot[b] # "active"
           THEN /\ widget' = WidgetResponse("chat", b, 503, 0)
                /\ proc' = [proc EXCEPT ![p] = Idle]
           ELSE /\ chat_session[id].messages_count < MaxMessages
                /\ widget' = WidgetResponse("chat", b, 0, 0)
                /\ proc' = [proc EXCEPT ![p].pc = "commit",
                                        ![p].local = <<id, chat_session[id].messages_count>>]
        /\ UNCHANGED <<bot, widget_token, chat_session, ragVars, syncVars, authVars, chatVars>>

\* send_message after the pipeline (lines 428-441): messages_count of the row
\* that was read is increased and committed
message_commit(p) ==
    /\ proc[p].pc = "commit" /\ proc[p].op = "chat"
    /\ chat_session' = [chat_session EXCEPT ![proc[p].local[1]].messages_count =
                                                proc[p].local[2] + 1]
    /\ widget' = WidgetResponse("chat", proc[p].arg, 200, 0)
    /\ proc' = [proc EXCEPT ![p] = Idle]
    /\ UNCHANGED <<bot, widget_token, ragVars, syncVars, authVars, chatVars>>

(***************************************************************************)
(* The requests of the RAG pipeline.                                       *)
(***************************************************************************)
\* the longest generated question, in tokens
MaxTokens == 4

\* Field(..., min_length=1, max_length=1000) of the Question model
min_length == 1
max_length == 1000

Vocabulary == {Str.hi, Str.this, Str.fix}

GeneratedQuestions ==
    { join(t) : t \in UNION { [1..m -> Vocabulary] : m \in 1..MaxTokens } }

RECURSIVE followed_by(_, _)
followed_by(q, n) == IF n = 0 THEN q ELSE followed_by(q \o <<" ">> \o Str.fix, n - 1)

\* every canned key and every greeting, alone and followed by more tokens
PrefixedQuestions ==
    { followed_by(g, n) : g \in greetings \cup StaticKeys, n \in 0..(MaxTokens - 1) }

padded(q) == <<" ">> \o q \o <<" ">>
capitalized(q) == [i \in 1..Len(q) |-> IF i = 1 THEN UpperChar(q[i]) ELSE q[i]]

\* a question of n characters
of_length(n) == [i \in 1..n |-> "x"]

\* the questions at the limits of the length validation
BoundaryQuestions == { of_length(n) : n \in {min_length, max_length, max_length + 1} }

Questions ==
    GeneratedQuestions \cup PrefixedQuestions
      \cup { padded(q) : q \in PrefixedQuestions }
      \cup { capitalized(q) : q \in PrefixedQuestions }
      \cup { <<>>, <<" ">> }
      \cup BoundaryQuestions

\* the language preference of the user and what fails while the request runs
Conditions ==
    { [pref |-> p, translate_fails |-> FALSE, llm_fails |-> l, graph_fails |-> FALSE] :
        p \in {None, "fr"}, l \in BOOLEAN }
    \cup { [pref |-> "fr", translate_fails |-> TRUE, llm_fails |-> l, graph_fails |-> FALSE] :
        l \in BOOLEAN }
    \cup { [pref |-> p, translate_fails |-> FALSE, llm_fails |-> FALSE, graph_fails |-> TRUE] :
        p \in {None, "fr"} }

\* payload.conversation_id: no id (0) or any integer the client sends
MaxConversations == 1
NoConversation == 0
ConversationIds == 0..(MaxConversations + 1)

\* a row of the Conversation table (lines 116-119)
Conversation(workspace_id) == [workspace_id |-> workspace_id]

ChatIdle == conversation = <<>>

NoReq ==
    [caller |-> None, question |-> <<>>, workspace_id |-> None, is_system_message |-> FALSE,
     pref |-> None, translate_fails |-> FALSE, llm_fails |-> FALSE, graph_fails |-> FALSE,
     conversation_id |-> NoConversation]

Request(caller, q, ws, sys, c) ==
    [caller |-> caller, question |-> q, workspace_id |-> ws, is_system_message |-> sys,
     pref |-> c.pref, translate_fails |-> c.translate_fails, llm_fails |-> c.llm_fails,
     graph_fails |-> c.graph_fails, conversation_id |-> NoConversation]

NoState ==
    [question |-> <<>>, workspace_id |-> None, language |-> None, source_language |-> None,
     context |-> <<>>, retrieved_docs_info |-> <<>>, translated_question |-> NoTranslation,
     answer |-> None, search_called |-> FALSE, search_filter |-> None, hits |-> <<>>,
     llm_called |-> FALSE, llm_context |-> <<>>]

NoMetrics ==
    [has |-> FALSE, retrieved_docs_info |-> <<>>, num_retrieved |-> 0,
     source_language |-> None, response_language |-> None, was_translated |-> FALSE,
     translated_question |-> NoTranslation]

NoOut == [returned |-> FALSE, raised |-> FALSE, answer |-> None, metrics |-> NoMetrics]

\* the response of POST /chat with the Message row it saved (question's
\* answer, conversation_id) and the entry of the interaction log (written,
\* its error field)
NoHttp ==
    [status |-> 0, answer |-> None, saved_answer |-> None,
     conversation_id |-> NoConversation, logged |-> FALSE, error |-> None]

\* language_map of ask_question
response_language(code) ==
    CASE code = "en" -> "English" [] code = "fr" -> "French" [] code = "ar" -> "Arabic"
      [] OTHER -> code

\* lines 398-426: the language of the question and of the answer
source_language(r) == IF r.pref = None THEN "en" ELSE r.pref

\* lines 434-441: the State the graph is invoked with
initial_state(r) ==
    [NoState EXCEPT !.question = r.question, !.workspace_id = r.workspace_id,
                    !.language = response_language(source_language(r)),
                    !.source_language = source_language(r)]

\* lines 443-462: the answer and the metrics built from the graph's result
metrics_of(state) ==
    [has |-> TRUE,
     retrieved_docs_info |-> state.retrieved_docs_info,
     num_retrieved |-> Len(state.retrieved_docs_info),
     source_language |-> state.source_language,
     response_language |-> state.language,
     was_translated |-> state.source_language # "en",
     translated_question |->
        IF state.source_language # "en" THEN state.translated_question ELSE NoTranslation]

TicketAnswer ==
    "Your ticket has been created successfully. You will receive an update when it is processed. Thank you!"

\* A length validation that refuses a question of exactly max_length.
validates_below_max_length(q) == Len(q) >= min_length /\ Len(q) < max_length

\* the validation of the field `question` of the payload (pydantic Field)
Question_validates(q) == Len(q) >= min_length /\ Len(q) <= max_length

\* POST /chat: validation, then the call of ask_question (chat_router 62-103).
\* A payload that fails the model validation is answered 422 by the framework
\* before the handler runs; the handler answers 400 for a blank question or a
\* user without workspace.
ChatEndpoint(q, ws, sys, c, conversation_id) ==
    /\ pc = "idle"
    /\ conversation_id = NoConversation => Len(conversation) < MaxConversations
    /\ st' = NoState /\ out' = NoOut
    /\ req' = [Request("chat", q, ws, sys, c) EXCEPT !.conversation_id = conversation_id]
    /\ IF ~Question_validates(q)
       THEN /\ http' = [NoHttp EXCEPT !.status = 422]
            /\ pc' = "rejected"
       ELSE IF str_strip(q) = <<>> \/ ws = None
       THEN /\ http' = [NoHttp EXCEPT !.status = 400]
            /\ pc' = "rejected"
       ELSE /\ http' = NoHttp
            /\ pc' = "ask"
    /\ UNCHANGED <<syncVars, authVars, extVars>>

\* any other caller of ask_question(question, workspace_id, user_id)
DirectCall(q, ws, c) ==
    /\ pc = "idle"
    /\ st' = NoState /\ out' = NoOut /\ http' = NoHttp
    /\ req' = Request("direct", q, ws, FALSE, c)
    /\ pc' = "ask"
    /\ UNCHANGED <<syncVars, authVars, extVars>>

\* ask_question up to the invocation of the graph (rag_service 394-441, 464-466)
AskQuestion ==
    /\ pc = "ask"
    /\ IF str_strip(req.question) = <<>>
       THEN /\ out' = [NoOut EXCEPT !.returned = TRUE, !.answer = NoQuestionAnswer]
            /\ pc' = "return"
            /\ UNCHANGED st
       ELSE IF req.graph_fails
       THEN /\ out' = [NoOut EXCEPT !.returned = TRUE, !.answer = FallbackAnswer]
            /\ pc' = "return"
            /\ UNCHANGED st
       ELSE /\ st' = initial_state(req)
            /\ pc' = "retrieve"
            /\ UNCHANGED out
    /\ UNCHANGED <<req, http, syncVars, authVars, extVars>>

\* the node "retrieve" of the graph
Retrieve ==
    /\ pc = "retrieve"
    /\ LET question == str_strip(str_lower(st.question))
           outcomes == IF IsStaticKey(question) \/ IsSimpleGreeting(question)
                       THEN { Raised }
                       ELSE similarity_search_with_score(
                                store, similarity_search_k, {"k", "metadata_filter"})
       IN  \E o \in outcomes : st' = retrieve(st, req, o)
    /\ pc' = "generate"
    /\ UNCHANGED <<req, out, http, syncVars, authVars, extVars>>

\* the node "generate" of the graph
Generate ==
    /\ pc = "generate"
    /\ st' = generate(st, req)
    /\ pc' = "finish"
    /\ UNCHANGED <<req, out, http, syncVars, authVars, extVars>>

\* ask_question after the graph returned (rag_service 443-462)
Finish ==
    /\ pc = "finish"
    /\ out' = [returned |-> TRUE, raised |-> FALSE,
               answer |-> IF st.answer = None THEN NoAnswer ELSE st.answer,
               metrics |-> metrics_of(st)]
    /\ pc' = "return"
    /\ UNCHANGED <<req, st, http, syncVars, authVars, extVars>>

\* lines 112-121: the conversation_id of the payload as it comes, or the id
\* of the Conversation that is created
conv_id(payload_id, rows) ==
    IF payload_id = NoConversation THEN Len(rows) + 1 ELSE payload_id

\* POST /chat after ask_question: the Conversation and Message rows, the
\* entry of the interaction log and the response (chat_router 104-193).
\* error_message is set only where ask_question raises (lines 104-108); a
\* system message is answered before the log is written (lines 135-141).
ChatRespond ==
    /\ pc = "return" /\ req.caller = "chat"
    /\ LET answer == IF out.raised THEN FallbackAnswer ELSE out.answer
           id == conv_id(req.conversation_id, conversation)
       IN  /\ conversation' = IF req.conversation_id = NoConversation
                              THEN Append(conversation, Conversation(req.workspace_id))
                              ELSE conversation
           /\ http' = [status |-> 200,
                       answer |-> IF req.is_system_message
                                  THEN TicketAnswer
                                  ELSE answer,
                       saved_answer |-> answer,
                       conversation_id |-> id,
                       logged |-> ~req.is_system_message,
                       error |-> IF out.raised THEN "str(e)" ELSE None]
    /\ pc' = "done"
    /\ UNCHANGED <<req, st, out, syncVars, authVars, widgetVars, procVars>>

DirectReturn ==
    /\ pc = "return" /\ req.caller = "direct"
    /\ pc' = "done"
    /\ UNCHANGED <<req, st, out, http, syncVars, authVars, extVars>>

\* the request is over: its locals are gone and the next request can come
Release ==
    /\ pc \in {"done", "rejected"}
    /\ pc' = "idle" /\ req' = NoReq /\ st' = NoState /\ out' = NoOut /\ http' = NoHttp
    /\ UNCHANGED <<syncVars, authVars, extVars>>

(***************************************************************************)
(* The pipeline over a store that holds chunks of both workspaces.         *)
(***************************************************************************)
SampleStore == <<Chunk("a.pdf", "w1", 1), Chunk("a.pdf", "w2", 1)>>

InitRag ==
    /\ pc = "idle" /\ req = NoReq /\ st = NoState /\ out = NoOut /\ http = NoHttp
    /\ store = SampleStore
    /\ SyncIdle /\ AuthIdle /\ WidgetIdle /\ ProcIdle /\ ChatIdle

NextRag ==
    \/ /\ pc = "idle"
       /\ \E q \in Questions, ws \in Workspaces \cup {None}, sys \in BOOLEAN,
             c \in Conditions, id \in ConversationIds : ChatEndpoint(q, ws, sys, c, id)
    \/ /\ pc = "idle"
       /\ \E q \in Questions, ws \in Workspaces \cup {None}, c \in Conditions :
             DirectCall(q, ws, c)
    \/ AskQuestion
    \/ Retrieve
    \/ Generate
    \/ Finish
    \/ ChatRespond
    \/ DirectReturn
    \/ Release

SpecRag == InitRag /\ [][NextRag]_vars

(***************************************************************************)
(* The loop over the hits of a search that returned (rag_service 262-289), *)
(* on every list of at most MaxHits scored hits.                           *)
(***************************************************************************)
MaxHits == 3

HitLists ==
    UNION { [1..n -> [doc : {SampleStore[1], SampleStore[2]}, score : Scores]] :
            n \in 0..MaxHits }

InitHits ==
    /\ pc = "retrieve"
    /\ \E caller \in {"chat", "direct"}, c \in Conditions, h \in HitLists :
         /\ ~c.graph_fails
         /\ req = Request(caller, Str.fix \o <<" ">> \o Str.fix, "w1", FALSE, c)
         /\ st = [initial_state(req) EXCEPT !.hits = h]
    /\ out = NoOut /\ http = NoHttp
    /\ store = SampleStore
    /\ SyncIdle /\ AuthIdle /\ WidgetIdle /\ ProcIdle /\ ChatIdle

\* lines 262-297 applied to the hits in st.hits
BuildContext ==
    /\ pc = "retrieve"
    /\ st' = retrieve(st, req, Returned(st.hits))
    /\ pc' = "generate"
    /\ UNCHANGED <<req, out, http, syncVars, authVars, extVars>>

NextHits ==
    \/ BuildContext
    \/ Generate
    \/ Finish
    \/ ChatRespond
    \/ DirectReturn

SpecHits == InitHits /\ [][NextHits]_vars

(***************************************************************************)
(* Properties of the RAG pipeline                                          *)
(***************************************************************************)
normalized(q) == str_strip(str_lower(q))
starts_with(prefix, s) ==
    Len(prefix) <= Len(s) /\ SubSeq(s, 1, Len(prefix)) = prefix
GraphRan == pc \in {"finish", "return", "done"} /\ st.question # <<>>

C21_MessageInOwnWorkspace ==
    (pc = "done" /\ req.caller = "chat") =>
        /\ http.conversation_id \in 1..Len(conversation)
        /\ conversation[http.conversation_id].workspace_id = req.workspace_id

\* C22: when the generation or the translation failed during POST /chat, the
\* Message row holds the fallback answer and the entry of the interaction
\* log written for the request has an error.
C22_FailureIsLogged ==
    (/\ pc = "done" /\ req.caller = "chat"
     /\ \/ req.llm_fails /\ st.llm_called
        \/ req.translate_fails /\ st.search_called)
    => /\ http.saved_answer = FallbackAnswer
       /\ http.logged => http.error # None

\* C8: ask_question returns and does not raise for a non-blank question; when
\* the LLM call fails the returned answer is the fallback text, and POST /chat
\* answers 200 and stores that text.
C8_NeverRaises ==
    /\ ~out.raised
    /\ (pc \in {"return", "done"} /\ str_strip(req.question) # <<>>) => out.returned
    /\ (pc \in {"return", "done"} /\ st.llm_called /\ req.llm_fails) =>
            out.answer = FallbackAnswer
    /\ (pc = "done" /\ req.caller = "chat" /\ st.llm_called /\ req.llm_fails) =>
            http.status = 200 /\ http.saved_answer = FallbackAnswer

C8_Witness ==
    /\ pc = "done" /\ req.caller = "chat" /\ ~req.is_system_message
    /\ st.llm_called /\ req.llm_fails
    /\ http.status = 200 /\ http.answer = FallbackAnswer

\* C9: a question whose lower-case form contains a greeting and has at most 3
\* tokens reaches neither the vector search nor the LLM; a question of 4
\* tokens that starts with a greeting reaches both.
C9_GreetingShortCircuit ==
    GraphRan =>
        LET q == normalized(st.question) IN
        /\ ((\E g \in greetings : str_contains(g, q)) /\ Len(str_split(q)) <= 3) =>
                ~st.search_called /\ ~st.llm_called
        /\ ((\E g \in greetings : starts_with(g, q)) /\ Len(str_split(q)) = 4) =>
                st.search_called /\ st.llm_called

C9_Witness ==
    /\ pc = "finish"
    /\ Len(str_split(st.question)) = 3
    /\ \E g \in greetings : str_contains(g, normalized(st.question))
    /\ normalized(st.question) \notin StaticKeys
    /\ ~st.search_called /\ ~st.llm_called /\ st.answer = DefaultGreeting

\* the tokens of a greeting occur, one after another, among the tokens of q
has_greeting_tokens(q) ==
    \E g \in greetings :
        LET gs == str_split(g)
            qs == str_split(q)
        IN  \E i \in 1..(Len(qs) - Len(gs) + 1) : SubSeq(qs, i, i + Len(gs) - 1) = gs

\* C23: a question that is no greeting is never short-circuited: when the
\* normalized question has at most 3 tokens, is no canned key and none of its
\* tokens is a greeting (a greeting string occurs at most inside a longer
\* word), the pipeline runs the vector search and gives no canned greeting.
C23_NonGreetingSearched ==
    GraphRan =>
        LET q == normalized(st.question) IN
        (/\ q \notin StaticKeys
         /\ Len(str_split(q)) \in 1..3
         /\ ~has_greeting_tokens(q))
        => st.search_called /\ st.answer # DefaultGreeting

\* C10: the context handed to the prompt is the hits whose score is strictly
\* above 0.6, in the order of the hits (a score of exactly 0.6 is left out),
\* while retrieved_docs_info and num_retrieved cover every hit.
C10_ThresholdFilter ==
    (pc # "retrieve" /\ st.search_called) =>
        LET above(h) == h.score > 60
            kept == SelectSeq(st.hits, above)
        IN  /\ Len(st.context) = Len(kept)
            /\ \A i \in 1..Len(kept) : st.context[i].chunk = kept[i].doc
            /\ st.llm_called => st.llm_context = st.context
            /\ Len(st.retrieved_docs_info) = Len(st.hits)
            /\ \A i \in 1..Len(st.hits) :
                  /\ st.retrieved_docs_info[i].chunk = st.hits[i].doc
                  /\ st.retrieved_docs_info[i].score = st.hits[i].score
            /\ out.returned =>
                  /\ out.metrics.retrieved_docs_info = st.retrieved_docs_info
                  /\ out.metrics.num_retrieved = Len(st.hits)

C10_Witness ==
    /\ pc = "return" /\ out.returned /\ st.llm_called
    /\ Len(st.hits) = 3
    /\ st.hits[1].score = 60 /\ st.hits[2].score = 61 /\ st.hits[3].score = 59
    /\ Len(st.llm_context) = 1 /\ st.llm_context[1].chunk = st.hits[2].doc
    /\ out.metrics.num_retrieved = 3

\* what a refused POST /chat leaves: no answer stored, the pipeline not entered
refused_without_rows ==
    /\ http.saved_answer = None /\ http.answer = None
    /\ st = NoState /\ out = NoOut

InitAuth ==
    /\ pc = "idle" /\ req = NoReq /\ st = NoState /\ out = NoOut /\ http = NoHttp
    /\ store = <<>>
    /\ SyncIdle /\ AuthIdle /\ WidgetIdle /\ ProcIdle /\ ChatIdle

NextAuth ==
    \/ \E u \in Users : Login(u)
    \/ LoginRejected
    \/ \E token \in 0..serial : Refresh(token)
    \/ \E u \in Users, token \in 0..serial : Logout(u, token)
    \/ \E u \in Users : LogoutAll(u)
    \/ CleanupTokens
    \/ \E d \in PassDays : Pass(d)

SpecAuth == InitAuth /\ [][NextAuth]_vars

(***************************************************************************)
(* Properties of the refresh tokens                                        *)
(***************************************************************************)
active_ids(u) == { r.id : r \in { x \in tokens : x.user_id = u /\ x.is_active } }

\* C2: after any sequence of login, refresh, logout, logout-all and cleanup
\* requests served one after another, no user has more than 2 refresh tokens
\* with is_active = TRUE.
C2_AtMostTwoActive ==
    \A u \in Users : Cardinality(active_ids(u)) <= 2

C2_Witness ==
    /\ serial >= 3
    /\ \E u \in Users :
         /\ Cardinality(active_ids(u)) = 2
         /\ \E r \in tokens : r.user_id = u /\ ~r.is_active
    /\ auth.op = "refresh" /\ auth.status = 200

\* the last three tokens T1, T2, T3 of a run of at least three consecutive
\* logins of u, T1 and T2 not yet expired when T3 was made
three_logins(u) ==
    /\ Len(issued[u]) >= 3
    /\ LET n == Len(issued[u]) IN
       issued[u][n - 2].at + days(REFRESH_TOKEN_EXPIRE_DAYS) >= issued[u][n].at

\* what three logins in a row leave: exactly T2 and T3 active, T1 inactive
left_by_three_logins(u) ==
    LET n == Len(issued[u]) IN
    /\ active_ids(u) = {issued[u][n - 1].id, issued[u][n].id}
    /\ \E r \in tokens : r.id = issued[u][n - 2].id /\ r.user_id = u /\ ~r.is_active

\* C3: when three logins in a row gave a user the tokens T1, T2, T3 (none
\* expired), exactly T2 and T3 are active and the row of T1 is inactive; a
\* refresh that then presents T1 is answered 401 and creates no token.
C3_OldestDeactivated ==
    [][\A u \in Users :
         /\ three_logins(u)' => left_by_three_logins(u)'
         /\ (/\ three_logins(u)
             /\ auth'.op = "refresh"
             /\ auth'.presented = issued[u][Len(issued[u]) - 2].id)
            => /\ auth'.status = 401 /\ auth'.created = 0
               /\ tokens' = tokens /\ serial' = serial]_vars

C3_Witness ==
    \E u \in Users :
        /\ three_logins(u)
        /\ auth.op = "refresh" /\ auth.status = 401
        /\ auth.presented = issued[u][Len(issued[u]) - 2].id
        /\ serial < MaxIssued

\* the active rows of user u
active_rows(u, table) == { r \in table : r.user_id = u /\ r.is_active }

\* the id of the most recently created row of the set, if any
newest_id(rows) ==
    IF rows = {} THEN {}
    ELSE {(CHOOSE r \in rows : \A x \in rows : x.created_at <= r.created_at).id}

\* the step answers a login or a refresh with a new refresh token
issues_token == auth'.op \in {"login", "refresh"} /\ auth'.created = serial + 1

\* C26 as stated: issuing a refresh token leaves active exactly the new token
\* and the most recently created of the tokens that had is_active = TRUE
\* before (if any); a token presented to POST /auth/refresh that is the
\* newest active token of the user stays active.
C26_NewestActiveKept ==
    [][issues_token =>
         LET u == auth'.user
             before == active_rows(u, tokens)
         IN  /\ { r.id : r \in active_rows(u, tokens') } =
                    {auth'.created} \cup newest_id(before)
             /\ (auth'.op = "refresh" /\ {auth'.presented} = newest_id(before))
                    => \E r \in active_rows(u, tokens') : r.id = auth'.presented]_vars

\* C26: issuing a refresh token leaves active exactly the new token and the
\* most recently created of the tokens that were active before and whose
\* expiry time had not passed (if any).  So a token presented to POST
\* /auth/refresh that is the newest active token of the user stays active,
\* and a refresh that presents an active token before its expiry time is
\* answered 200 with a new token, the first time and every later time.
C26_NewestUsableKept ==
    [][/\ issues_token =>
            LET u == auth'.user
                before == { r \in active_rows(u, tokens) : r.expires_at >= now }
            IN  /\ { r.id : r \in active_rows(u, tokens') } =
                       {auth'.created} \cup newest_id(before)
                /\ (auth'.op = "refresh"
                        /\ {auth'.presented} = newest_id(active_rows(u, tokens)))
                       => \E r \in active_rows(u, tokens') : r.id = auth'.presented
       /\ (auth'.op = "refresh" /\ auth' # auth)
            => (auth'.status = 200 /\ auth'.created = serial + 1)
                 <=> \E r \in tokens : /\ r.id = auth'.presented
                                       /\ r.is_active /\ r.expires_at > now]_vars

\* a second refresh in a row with the same token, the newest active one of
\* the user when it was first presented, was answered 200; the token is
\* still active and an older token of the user is not
C26_Witness ==
    /\ auth.op = "refresh" /\ auth.status = 200
    /\ auth.created = auth.presented + 2
    /\ \E r \in tokens : r.id = auth.presented /\ r.is_active /\ r.user_id = auth.user
    /\ \E r \in tokens : r.id = auth.created /\ r.is_active /\ r.user_id = auth.user
    /\ Cardinality(active_rows(auth.user, tokens)) = 2

\* the rows of the table that the step removes
deleted_rows == { r \in tokens : \A x \in tokens' : x.id # r.id }

\* C24: every cleanup sweep (the one of a user on login, token issue and
\* logout, and the job of the administrator) deletes only RefreshToken rows
\* that are expired or that are inactive and were created more than 7 days
\* ago: every other row is still there afterwards.
C24_SweepKeepsRecent ==
    [][auth'.op \in {"login", "refresh", "logout", "cleanup-tokens"}
       => \A r \in deleted_rows :
            \/ r.expires_at < now
            \/ ~r.is_active /\ r.created_at < now - days(InactiveRetentionDays)]_vars

(***************************************************************************)
(* The data-source endpoints served one after another.                     *)
(***************************************************************************)
\* the uploads and the workspace of the user who syncs ClickUp tickets
Uploads == (Workspaces \X {"a.pdf"}) \cup {<<"w1", "b.txt">>}
TaskWorkspaces == {"w1"}

InitSync ==
    /\ pc = "idle" /\ req = NoReq /\ st = NoState /\ out = NoOut /\ http = NoHttp
    /\ store = <<>>
    /\ SyncIdle /\ AuthIdle /\ WidgetIdle /\ ProcIdle /\ ChatIdle

NextSync ==
    \/ \E u \in Uploads :
         \E content \in UploadContents(u[2]) : upload_file(u[1], u[2], content)
    \/ \E id \in 1..MaxSources : sync_regular_source(id)
    \/ \E id \in 1..MaxSources : unsync_regular_source(id)
    \/ \E ws \in Workspaces, filename \in Refs :
         save_file_content(ws, filename, "text")
    \/ \E ws \in TaskWorkspaces, t \in Tasks : sync_clickup_task(ws, t)
    \/ \E t \in Tasks, embed_raises \in BOOLEAN : sync_tasks(t, embed_raises)
    \/ reload_vector_store
    \/ load_documents_from_data_folder

SpecSync == InitSync /\ [][NextSync]_vars

(***************************************************************************)
(* Properties of the data sources                                          *)
(***************************************************************************)
\* the name under which the chunks of a source are embedded
embedded_as(reference) ==
    IF \E t \in Tasks : reference = clickup_path(t)
    THEN clickup_filename(CHOOSE t \in Tasks : reference = clickup_path(t))
    ELSE reference

\* the chunks of the store that belong to a source: by the payload, or by
\* the text they hold
chunks_of(s, ds) ==
    SelectSeq(s, LAMBDA c : \/ c.source = embedded_as(ds.reference)
                            \/ /\ c.origin = embedded_as(ds.reference)
                               /\ c.origin_ws = ds.workspace_id)

IsExternalTask(reference) ==
    \E t \in Tasks : embedded_as(reference) = clickup_filename(t)

\* C4: every DataSource with is_synced = 1 has at least one chunk of its
\* reference in the store, and every DataSource with is_synced = 0 has none.
C4_SyncedIffChunks ==
    \A id \in 1..Len(datasource) :
        /\ datasource[id].is_synced = 1 =>
                chunks_of(store, datasource[id]) # <<>>
        /\ datasource[id].is_synced = 0 =>
                chunks_of(store, datasource[id]) = <<>>

\* C5: a sync of a source that is already synced leaves the chunks of its
\* reference as they were, an external task keeps exactly one chunk, and of
\* the row only last_synced_at changes, to a later instant.
C5_SyncIdempotent ==
    [][\A id \in 1..Len(datasource) :
         LET ds == datasource[id] IN
         (/\ last'.op \in {"sync", "sync_tasks"} /\ last'.status = 200
          /\ now' # now /\ datasource'[id].last_synced_at = now'
          /\ (ds.is_synced = 1 \/ ds.last_synced_at # 0))
         => /\ chunks_of(store', ds) = chunks_of(store, ds)
            /\ IsExternalTask(ds.reference) =>
                    Len(chunks_of(store', ds)) = 1
            /\ datasource'[id] = [ds EXCEPT !.last_synced_at = now']
            /\ now' > ds.last_synced_at]_vars

\* C6: a sync of D that is followed by an unsync of D leaves no chunk of
\* D.reference in the store and D.is_synced = 0.
C6_SyncThenUnsync ==
    [][(/\ last.op = "sync" /\ last.status = 200
        /\ last'.op = "unsync" /\ last'.status = 200 /\ last'.id = last.id)
       => /\ datasource'[last.id].is_synced = 0
          /\ chunks_of(store', datasource'[last.id]) = <<>>]_vars

\* C7: every chunk in the store carries a workspace_id that is not empty and
\* is the workspace_id of the DataSource it was made from.
C7_ChunksCarryWorkspace ==
    \A i \in 1..Len(store) :
        /\ store[i].workspace_id # None
        /\ store[i].workspace_id = store[i].origin_ws

\* C29: saving the content of a file as a user of workspace W sets is_synced
\* to 0 only on the DataSource of workspace W with that reference: a
\* DataSource of another workspace, with the same reference or not, keeps
\* its is_synced value.
C29_SaveResetsOwnWorkspace ==
    [][\A ws \in Workspaces, filename \in Refs :
         save_file_content(ws, filename, "text")
            => /\ Len(datasource') = Len(datasource)
               /\ \A i \in 1..Len(datasource) :
                     datasource'[i].is_synced # datasource[i].is_synced
                        => /\ datasource[i].workspace_id = ws
                           /\ datasource[i].reference = filename]_vars

\* C30: after the sync of an external task by a user whose current workspace
\* is W, the DataSource that the sync has marked as synced for
\* clickup_<id>.txt is a row of workspace W, whatever rows there were before.
C30_TaskRowInWorkspace ==
    [][\A ws \in TaskWorkspaces, t \in Tasks :
         sync_clickup_task(ws, t)
            => \E i \in 1..Len(datasource') :
                  /\ datasource'[i].reference = clickup_filename(t)
                  /\ datasource'[i].is_synced = 1
                  /\ datasource'[i].workspace_id = ws]_vars

(***************************************************************************)
(* The /widget endpoints served one after another.                         *)
(***************************************************************************)
InitWidget ==
    /\ pc = "idle" /\ req = NoReq /\ st = NoState /\ out = NoOut /\ http = NoHttp
    /\ store = <<>>
    /\ SyncIdle /\ AuthIdle /\ WidgetIdle /\ ProcIdle /\ ChatIdle

NextWidget ==
    \/ \E b \in Bots : create_bot(b)
    \/ \E b \in Bots, is_active \in BOOLEAN : update_bot(b, is_active)
    \/ \E b \in Bots : delete_bot(b)
    \/ \E b \in Bots : generate_widget(b)
    \/ \E b \in Bots : revoke_token(b)
    \/ \E b \in Bots : start_session(b)

SpecWidget == InitWidget /\ [][NextWidget]_vars

InitVisitors ==
    /\ pc = "idle" /\ req = NoReq /\ st = NoState /\ out = NoOut /\ http = NoHttp
    /\ store = <<>>
    /\ SyncIdle /\ AuthIdle /\ WidgetIdle /\ ProcIdle /\ ChatIdle

NextVisitors ==
    \/ ProcIdle /\ \E b \in Bots : create_bot(b)
    \/ \E b \in Bots : delete_bot(b)
    \/ ProcIdle /\ \E b \in Bots : generate_widget(b)
    \/ ProcIdle /\ \E b \in Bots : start_session(b)
    \/ \E p \in Procs, b \in Bots, id \in 1..(Len(chat_session) + 1) :
         message_verify(p, b, id)
    \/ \E p \in Procs : message_check(p)
    \/ \E p \in Procs : message_commit(p)

SpecVisitors == InitVisitors /\ [][NextVisitors]_vars

InitSlots ==
    /\ pc = "idle" /\ req = NoReq /\ st = NoState /\ out = NoOut /\ http = NoHttp
    /\ store = <<>>
    /\ SyncIdle /\ AuthIdle /\ WidgetIdle /\ ProcIdle /\ ChatIdle

NextSlots ==
    \/ ProcIdle /\ \E b \in Bots : create_bot(b)
    \/ ProcIdle /\ \E b \in Bots, is_active \in BOOLEAN : update_bot(b, is_active)
    \/ ProcIdle /\ \E b \in Bots : delete_bot(b)
    \/ ProcIdle /\ \E b \in Bots : generate_widget(b)
    \/ ProcIdle /\ \E b \in Bots : revoke_token(b)
    \/ ProcIdle /\ \E b \in Bots : refresh_token(b)
    \/ ProcIdle /\ \E b \in Bots : start_session(b)
    \/ \E b \in Bots, id \in 1..(Len(chat_session) + 1) : message_verify("p1", b, id)
    \/ message_check("p1")
    \/ message_commit("p1")

SpecSlots == InitSlots /\ [][NextSlots]_vars

\* the bot exists, its widget token is valid and its active sessions have
\* reached the cap
at_cap(b) ==
    /\ bot[b] \in {"active", "inactive"}
    /\ widget_token[b] = "active"
    /\ limit_reached(active_sessions_count(b, chat_session))

\* the step answers a POST /widget/session/start of bot b
answers_start(b) == widget'.op = "start" /\ widget'.bot_id = b /\ widget' # widget

\* C28 as stated: once a bot has reached the session cap, every later
\* POST /widget/session/start for the bot is answered 429 for as long as the
\* bot exists.
C28_RateLimitedWhileBotExists ==
    [][\A b \in Bots : (at_cap(b) /\ answers_start(b)) => widget'.status = 429]_vars

\* C28: a ChatSession becomes inactive only in the deletion of its bot, and
\* no session is ever removed; so once a bot has reached the session cap,
\* every later POST /widget/session/start for the bot is rejected and adds no
\* session for as long as the bot exists: with 429 while the bot is active,
\* with 503 while it is inactive.  No message, token refresh or token
\* revocation frees a slot.
C28_SlotFreedOnlyByDeletion ==
    [][/\ Len(chat_session') >= Len(chat_session)
       /\ \A i \in 1..Len(chat_session) :
            (chat_session[i].is_active /\ ~chat_session'[i].is_active)
                => /\ widget'.op = "delete_bot" /\ widget'.status = 200
                   /\ widget'.bot_id = chat_session[i].bot_id
                   /\ bot'[chat_session[i].bot_id] = "deleted"
       /\ \A b \in Bots :
            /\ (limit_reached(active_sessions_count(b, chat_session))
                    /\ bot'[b] \in {"active", "inactive"})
                  => limit_reached(active_sessions_count(b, chat_session'))
            /\ (at_cap(b) /\ answers_start(b))
                  => /\ widget'.status = IF bot[b] = "active" THEN 429 ELSE 503
                     /\ chat_session' = chat_session]_vars

\* a bot at the cap, one of whose sessions has taken a message, answers 429
\* to the next start
C28_Witness ==
    \E b \in Bots :
        /\ widget = WidgetResponse("start", b, 429, 0)
        /\ bot[b] = "active" /\ widget_token[b] = "active"
        /\ active_sessions_count(b, chat_session) = widget_max_sessions_per_bot
        /\ \E i \in 1..Len(chat_session) :
              chat_session[i].bot_id = b /\ chat_session[i].messages_count > 0

(***************************************************************************)
(* Visitors who start sessions concurrently.                               *)
(***************************************************************************)
InitStarts ==
    /\ pc = "idle" /\ req = NoReq /\ st = NoState /\ out = NoOut /\ http = NoHttp
    /\ store = <<>>
    /\ SyncIdle /\ AuthIdle /\ WidgetIdle /\ ProcIdle /\ ChatIdle

NextStarts ==
    \/ \E b \in Bots : create_bot(b)
    \/ \E b \in Bots, is_active \in BOOLEAN : update_bot(b, is_active)
    \/ \E b \in Bots : generate_widget(b)
    \/ \E b \in Bots : revoke_token(b)
    \/ \E p \in Procs, b \in Bots : session_verify(p, b)
    \/ \E p \in Procs : session_count(p)
    \/ \E p \in Procs : session_insert(p)

SpecStarts == InitStarts /\ [][NextStarts]_vars

\* C27: while POST /widget/session/start requests of one bot are served
\* concurrently, the active ChatSessions of the bot never exceed
\* widget_max_sessions_per_bot, however the count and the insert interleave.
C27_CapUnderConcurrency ==
    \A b \in Bots :
        active_sessions_count(b, chat_session) <= widget_max_sessions_per_bot

(***************************************************************************)
(* Logins and refreshes served by two worker threads.                      *)
(***************************************************************************)
InitLogins ==
    /\ pc = "idle" /\ req = NoReq /\ st = NoState /\ out = NoOut /\ http = NoHttp
    /\ store = <<>>
    /\ SyncIdle /\ AuthIdle /\ WidgetIdle /\ ProcIdle /\ ChatIdle

NextLogins ==
    \/ \E p \in Procs, u \in Users : login_begin(p, u)
    \/ \E p \in Procs, token \in 0..MaxIssued : refresh_begin(p, token)
    \/ \E p \in Procs : read_active_tokens(p)
    \/ \E p \in Procs : commit_refresh_token(p)

SpecLogins == InitLogins /\ [][NextLogins]_vars

\* C13: under concurrent login and refresh requests of the same user the
\* issuance of tokens is serialized per user: in every interleaving the user
\* has at most 2 active RefreshToken rows.
C13_SerializedIssuance ==
    \A u \in Users :
        Cardinality({ r \in tokens : r.user_id = u /\ r.is_active }) <= 2

(***************************************************************************)
(* The batch sync with the per-source routes, one request at a time.       *)
(***************************************************************************)
InitBatch ==
    /\ pc = "idle" /\ req = NoReq /\ st = NoState /\ out = NoOut /\ http = NoHttp
    /\ store = <<>>
    /\ SyncIdle /\ AuthIdle /\ WidgetIdle /\ ProcIdle /\ ChatIdle

NextBatch ==
    \/ /\ ProcIdle
       /\ \E u \in Uploads :
            \E content \in UploadContents(u[2]) : upload_file(u[1], u[2], content)
    \/ ProcIdle /\ \E id \in 1..MaxSources : sync_regular_source(id)
    \/ ProcIdle /\ \E id \in 1..MaxSources : unsync_regular_source(id)
    \/ ProcIdle /\ \E ws \in Workspaces : sync_all_begin("p1", ws)
    \/ sync_all_step("p1")
    \/ sync_all_end("p1")

SpecBatch == InitBatch /\ [][NextBatch]_vars

\* the request that a worker answers in this step
answers(p, op) == proc[p].op = op /\ proc[p].pc = "loop" /\ proc'[p] = Idle

\* C16: a batch sync of workspace W attempts every non-external DataSource of
\* W whose is_synced is not 1, the never-synced ones (is_synced unset)
\* included: when it answers with no failed source, no non-external
\* DataSource of W is left with is_synced other than 1.
C16_BatchSyncCoversUnset ==
    [][\A p \in Procs :
         (answers(p, "sync_all") /\ proc[p].local[3] = <<>>)
         => unsynced_or_unset_sources(datasource', proc[p].arg) = <<>>]_vars

\* C17: a batch sync never aborts: a source that fails is rolled back (no row
\* changes) and recorded in failed_sources, the loop goes on to the next
\* selected source, a success is committed on its own and changes only its
\* row (the rows committed before stay as they are), and the batch answers
\* only when every selected source was attempted, with synced_sources plus
\* the number of failed_sources equal to the number of selected sources.
C17_BatchNeverAborts ==
    [][\A p \in Procs :
         (proc[p].op = "sync_all" /\ proc[p].pc = "loop" /\ proc'[p] # proc[p])
         => LET todo == proc[p].local[1]
                synced == proc[p].local[2]
                failed == proc[p].local[3]
                selected == proc[p].local[4]
            IN  IF proc'[p].pc = "idle"
                THEN /\ todo = <<>>
                     /\ synced + Len(failed) = Len(selected)
                     /\ last'.op = "sync_all" /\ last'.status = 200
                     /\ datasource' = datasource
                ELSE /\ todo # <<>>
                     /\ proc'[p].local[1] = Tail(todo)
                     /\ proc'[p].local[4] = selected
                     /\ \/ /\ proc'[p].local[3] = Append(failed, Head(todo))
                           /\ proc'[p].local[2] = synced
                           /\ datasource' = datasource
                        \/ /\ proc'[p].local[3] = failed
                           /\ proc'[p].local[2] = synced + 1
                           /\ datasource'[Head(todo)].is_synced = 1
                           /\ \A id \in 1..Len(datasource) :
                                 id # Head(todo) => datasource'[id] = datasource[id]]_vars

\* a batch over two sources is about to answer: the first was synced and
\* committed, the second failed after it
C17_Witness ==
    \E p \in Procs :
        /\ proc[p].op = "sync_all" /\ proc[p].pc = "loop"
        /\ proc[p].local[1] = <<>>
        /\ Len(proc[p].local[4]) = 2
        /\ proc[p].local[2] = 1
        /\ proc[p].local[3] = <<proc[p].local[4][2]>>
        /\ datasource[proc[p].local[4][1]].is_synced = 1

(***************************************************************************)
(* The batch unsync and the deletion of a source with the per-source       *)
(* routes, one request at a time.                                          *)
(***************************************************************************)
InitRemoval ==
    /\ pc = "idle" /\ req = NoReq /\ st = NoState /\ out = NoOut /\ http = NoHttp
    /\ store = <<>>
    /\ SyncIdle /\ AuthIdle /\ WidgetIdle /\ ProcIdle /\ ChatIdle

NextRemoval ==
    \/ /\ ProcIdle
       /\ \E u \in Uploads :
            \E content \in UploadContents(u[2]) : upload_file(u[1], u[2], content)
    \/ ProcIdle /\ \E id \in 1..MaxSources : sync_regular_source(id)
    \/ ProcIdle /\ \E id \in 1..MaxSources : unsync_regular_source(id)
    \/ ProcIdle /\ \E t \in Tasks : sync_tasks(t, FALSE)
    \/ ProcIdle /\ \E id \in 1..MaxSources : delete_source(id)
    \/ ProcIdle /\ \E ws \in Workspaces : unsync_all_begin("p1", ws)
    \/ unsync_all_step("p1")
    \/ unsync_all_end("p1")

SpecRemoval == InitRemoval /\ [][NextRemoval]_vars

\* the sources a batch selected, as a set of ids
selected_by(p) == { proc[p].local[4][i] : i \in 1..Len(proc[p].local[4]) }

\* C18: a batch unsync of workspace W removes only the chunks of the
\* DataSources it unsyncs and sets their is_synced to 0; the store is not
\* reset: the chunks of every other DataSource (of another workspace, of an
\* external task) are after the call what they were before it.
C18_BatchUnsyncTargeted ==
    [][\A p \in Procs :
         answers(p, "unsync_all")
         => \A id \in 1..Len(datasource) :
              has_row(datasource, id) =>
                IF id \in selected_by(p)
                THEN /\ datasource'[id].is_synced = 0
                     /\ chunks_of(store', datasource[id]) = <<>>
                ELSE chunks_of(store', datasource[id]) = chunks_of(store, datasource[id])]_vars

\* C19: in the unsync and the deletion of one DataSource the chunks of the
\* source leave the store before the row changes: when the row is marked
\* unsynced or removed, no chunk of its reference is in the store.
C19_StoreDeleteBeforeRow ==
    [][(/\ last'.op \in {"unsync", "delete"} /\ last'.status = 200
        /\ has_row(datasource, last'.id)
        /\ datasource'[last'.id] # datasource[last'.id])
       => chunks_of(store', datasource[last'.id]) = <<>>]_vars

(***************************************************************************)
(* Sync and unsync requests served by two worker threads.                  *)
(***************************************************************************)
InitWorkers ==
    /\ pc = "idle" /\ req = NoReq /\ st = NoState /\ out = NoOut /\ http = NoHttp
    /\ store = <<>>
    /\ SyncIdle /\ AuthIdle /\ WidgetIdle /\ ProcIdle /\ ChatIdle

NextWorkers ==
    \/ \E u \in Uploads :
         \E content \in UploadContents(u[2]) : upload_file(u[1], u[2], content)
    \/ \E p \in Procs, id \in 1..MaxSources : sync_begin(p, id)
    \/ \E p \in Procs : sync_embed(p)
    \/ \E p \in Procs : sync_commit(p)
    \/ \E p \in Procs, id \in 1..MaxSources : unsync_begin(p, id)
    \/ \E p \in Procs : unsync_delete(p)
    \/ \E p \in Procs : unsync_commit(p)

SpecWorkers == InitWorkers /\ [][NextWorkers]_vars

\* a worker is between its first call of the vector service and its commit
in_critical_section(p) ==
    proc[p].op \in {"sync", "unsync"} /\ proc[p].pc = "commit" /\ proc[p].local[2]

\* C14: sync and unsync operations on the same DataSource are mutually
\* exclusive: at no time are two of them between their first vector-store
\* access and their commit.
C14_MutualExclusion ==
    \A p, q \in Procs :
        (p # q /\ in_critical_section(p) /\ in_critical_section(q)) =>
            proc[p].arg # proc[q].arg

\* the sync request just served ended in an error result
sync_failed ==
    \/ last'.op \in {"sync", "sync_tasks"} /\ last'.status \in {400, 500}
    \/ last'.op = "sync_task"

\* C15: when loading or embedding fails while a DataSource (a regular source
\* or an external task) is synced, the DataSource is not marked synced: no
\* row is added and is_synced and last_synced_at of every row keep their
\* values.
C15_FailedSyncNotMarked ==
    [][sync_failed =>
         \A id \in 1..Len(datasource') :
            /\ id <= Len(datasource)
            /\ datasource'[id].is_synced = datasource[id].is_synced
            /\ datasource'[id].last_synced_at = datasource[id].last_synced_at]_vars

====
